---- MODULE Spec2Model ----
(***************************************************************************)
(* A model of the storage and query layer of sub_tui                       *)
(* (src/sub_tui/database.py): the five entity tables, the unified_fts      *)
(* search index kept by triggers, the CRUD methods of Database, the        *)
(* cascade of delete_subject, the timeframe query and search.              *)
(*                                                                         *)
(* Conventions                                                             *)
(*   - an optional (nullable) value is a sequence of length <= 1:          *)
(*     None is SQL NULL / Python None, Some(v) is the value v;             *)
(*   - a text is a sequence of atoms; the atoms SP and COMMA are the       *)
(*     separator characters, every other atom is a run of letters;         *)
(*   - a datetime is a number of ticks, TicksPerDay ticks to a calendar    *)
(*     day; its stored form is isoformat(t), compared as a string;         *)
(*   - a table is a function from the stored primary keys to rows;         *)
(*     unified_fts has no key and is a bag of rows.                        *)
(***************************************************************************)
EXTENDS Integers, Sequences, FiniteSets, Bags, TLC

VARIABLES
    conn,        \* the tables as the open connection sees them
    disk,        \* the tables as last committed to the database file
    pc,          \* position inside delete_subject, "idle" between calls
    pc_subject,  \* the subject_id argument of the running delete_subject
    pre,         \* the tables when the running delete_subject was called
    now,         \* the local wall clock, in ticks
    utc_offset,  \* local time minus UTC, in ticks
    last,        \* the latest Database call (or the crash): its name and
                 \* argument, whether it returned normally, and for a crash
                 \* the statement of delete_subject that was to run next
    held,        \* the model object or dict a caller of to_dict / from_dict
                 \* holds, with the value it started from
    schema       \* the schema of the database file: the names in
                 \* sqlite_master and the columns of each table

vars == <<conn, disk, pc, pc_subject, pre, now, utc_offset, last, held, schema>>

----------------------------------------------------------------------------
(* Optional values *)

None == <<>>
Some(v) == <<v>>
IsNull(x) == x = <<>>
Val(x) == x[1]

----------------------------------------------------------------------------
(* Python values whose type a conversion can change: None, a str, a list,  *)
(* and the members of the Enum classes of models.py.  A bool is the        *)
(* integer it equals in Python (True == 1, False == 0), which is also what *)
(* an INTEGER column gives back.                                           *)

PyNone == <<"None", <<>>>>
PyStr(t) == <<"str", t>>
PyList(l) == <<"list", l>>
PyItems(v) == v[2]

\* bool(v): None, '' and [] are false
Truthy(v) == PyItems(v) # <<>>

\* Enum members, and member.value
SubjectType(value) == <<"SubjectType", value>>
AgendaStatus(value) == <<"AgendaStatus", value>>
RecurrencePattern(value) == <<"RecurrencePattern", value>>
ActionStatus(value) == <<"ActionStatus", value>>
EnumValue(member) == member[2]

----------------------------------------------------------------------------
(* Texts and the fts5 tokenizer *)

SP == " "
COMMA == ","
QUOTE == "\""
Separators == {SP, COMMA, QUOTE}
EMPTY == <<>>

\* SQL COALESCE(x, '')
COALESCE(x) == IF IsNull(x) THEN EMPTY ELSE Val(x)

\* unicode61 folds case: the one capitalised atom of the model is the
\* literal 'Meeting' of the meetings triggers
Fold(a) == IF a = "Meeting" THEN "meeting" ELSE a

\* The tokens of a text: its maximal runs of non-separator atoms
\* (tokenize='porter unicode61' splits at every non-alphanumeric character).
RECURSIVE TokensFrom(_, _, _)
TokensFrom(t, i, run) ==
    IF i > Len(t)
    THEN IF run = <<>> THEN {} ELSE {run}
    ELSE IF t[i] \in Separators
         THEN (IF run = <<>> THEN {} ELSE {run}) \cup TokensFrom(t, i + 1, <<>>)
         ELSE TokensFrom(t, i + 1, Append(run, Fold(t[i])))

Tokens(t) == TokensFrom(t, 1, <<>>)

\* The tokens of a text in the order they occur
RECURSIVE TokenSeqFrom(_, _, _)
TokenSeqFrom(t, i, run) ==
    IF i > Len(t)
    THEN IF run = <<>> THEN <<>> ELSE <<run>>
    ELSE IF t[i] \in Separators
         THEN (IF run = <<>> THEN <<>> ELSE <<run>>) \o TokenSeqFrom(t, i + 1, <<>>)
         ELSE TokenSeqFrom(t, i + 1, Append(run, Fold(t[i])))

TokenSeq(t) == TokenSeqFrom(t, 1, <<>>)

\* ', '.join(list)
RECURSIVE JoinCommaSpace(_)
JoinCommaSpace(l) ==
    IF l = <<>> THEN <<>>
    ELSE IF Len(l) = 1 THEN l[1]
    ELSE l[1] \o <<COMMA, SP>> \o JoinCommaSpace(Tail(l))

\* ', '.join(tags) if tags else None.  join iterates a list by its items and
\* a str by its characters, which are the atoms of a tags text.
TagsColumn(tags) ==
    IF ~Truthy(tags) THEN None
    ELSE IF tags[1] = "list" THEN Some(JoinCommaSpace(PyItems(tags)))
    ELSE Some(JoinCommaSpace([i \in DOMAIN PyItems(tags) |-> <<PyItems(tags)[i]>>]))

\* json.dumps(list of strings): the names between brackets, quotes and
\* commas, all of which the tokenizer treats as separators.
RECURSIVE JsonItems(_)
JsonItems(l) ==
    IF l = <<>> THEN <<>>
    ELSE IF Len(l) = 1 THEN l[1]
    ELSE l[1] \o <<COMMA, SP>> \o JsonItems(Tail(l))

json_dumps(l) == <<COMMA>> \o JsonItems(l) \o <<COMMA>>

----------------------------------------------------------------------------
(* Dates *)

TicksPerDay == 4

Day(t) == t \div TicksPerDay

\* datetime.isoformat(): "YYYY-MM-DDTHH:MM:SS", as <<day, time of day>>
isoformat(t) == <<Day(t), t % TicksPerDay>>
IsoColumn(x) == IF IsNull(x) THEN None ELSE Some(isoformat(Val(x)))

\* SQL date(x[, '+n days']): "YYYY-MM-DD", as <<day>>
SqlDate(iso, plus_days) == <<iso[1] + plus_days>>

\* Comparison of two date/datetime strings as SQLite compares TEXT:
\* character by character, a proper prefix being smaller.
StrLess(a, b) ==
    \/ a[1] < b[1]
    \/ a[1] = b[1] /\ Len(a) < Len(b)
    \/ a[1] = b[1] /\ Len(a) = Len(b) /\ Len(a) = 2 /\ a[2] < b[2]

StrLessEq(a, b) == a = b \/ StrLess(a, b)

\* The text of a date as it appears in an index title (one token)
DateText(d) == <<ToString(d[1])>>

----------------------------------------------------------------------------
(* The schema: five tables and the search index (Database._init_db) *)

EmptyTable == [k \in {} |-> <<>>]

EmptyDb ==
    [subjects     |-> EmptyTable,
     agenda_items |-> EmptyTable,
     meetings     |-> EmptyTable,
     actions      |-> EmptyTable,
     notes        |-> EmptyTable,
     unified_fts  |-> EmptyBag]

Stored(T) == DOMAIN T

Put(T, row) == [k \in Stored(T) \cup {row.id} |-> IF k = row.id THEN row ELSE T[k]]

Drop(T, ids) == [k \in Stored(T) \ ids |-> T[k]]

\* The columns of the CREATE TABLE statements, in order
TableColumns(table) ==
    CASE table = "subjects" ->
            <<"id", "name", "code", "type", "description", "created_at",
              "last_reviewed_at">>
      [] table = "agenda_items" ->
            <<"id", "subject_id", "title", "description", "priority", "status",
              "created_at", "discussed_at", "is_recurring", "recurrence_pattern">>
      [] table = "meetings" ->
            <<"id", "subject_id", "title", "date", "attendees", "content",
              "created_at", "updated_at">>
      [] table = "actions" ->
            <<"id", "subject_id", "title", "description", "status", "due_date",
              "created_at", "completed_at", "archived_at", "meeting_id",
              "agenda_item_id", "tags">>
      [] table = "notes" ->
            <<"id", "subject_id", "title", "content", "tags", "created_at",
              "updated_at">>

TableNames == {"subjects", "agenda_items", "meetings", "actions", "notes"}

IndexNames ==
    {"idx_subjects_name", "idx_subjects_type", "idx_agenda_subject",
     "idx_agenda_status", "idx_meetings_subject", "idx_meetings_date",
     "idx_actions_subject", "idx_actions_status", "idx_actions_due_date",
     "idx_notes_subject"}

TriggerNames ==
    {"subjects_fts_insert", "subjects_fts_delete", "subjects_fts_update",
     "agenda_fts_insert", "agenda_fts_delete", "agenda_fts_update",
     "meetings_fts_insert", "meetings_fts_delete", "meetings_fts_update",
     "actions_fts_insert", "actions_fts_delete", "actions_fts_update",
     "notes_fts_insert", "notes_fts_delete", "notes_fts_update"}

\* Every name the script of _init_db creates
SchemaObjects == TableNames \cup IndexNames \cup {"unified_fts"} \cup TriggerNames

\* A database file that does not exist yet
NoFile == [objects |-> {}, columns |-> [t \in TableNames |-> <<>>]]

Contains(columns, c) == \E i \in DOMAIN columns : columns[i] = c

\* CREATE ... IF NOT EXISTS for every name of the script: a name that
\* exists is left as it is
CreateIfNotExists(S) ==
    [objects |-> S.objects \cup SchemaObjects,
     columns |-> [t \in TableNames |->
                    IF t \in S.objects THEN S.columns[t] ELSE TableColumns(t)]]

\* ALTER TABLE table ADD COLUMN column ... DEFAULT default: the column is
\* appended and every stored row reads the default in it; no trigger fires
AddColumn(F, table, column, default) ==
    [schema |-> [F.schema EXCEPT !.columns[table] = Append(@, column)],
     db     |-> [F.db EXCEPT ![table] =
                    [k \in Stored(F.db[table]) |->
                        [f \in DOMAIN F.db[table][k] \cup {column} |->
                            IF f = column THEN default ELSE F.db[table][k][f]]]]]

Database_run_migrations_NoCheck(F) ==
    AddColumn(AddColumn(F, "meetings", "title", <<"Meeting">>),
              "actions", "note_id", None)

\* Database._run_migrations on a file F (its schema and its tables)
Database_run_migrations(F) ==
    LET F1 == IF ~Contains(F.schema.columns.meetings, "title")
              THEN AddColumn(F, "meetings", "title", <<"Meeting">>) ELSE F
    IN  IF ~Contains(F1.schema.columns.actions, "note_id")
        THEN AddColumn(F1, "actions", "note_id", None) ELSE F1

\* Database._init_db on a file F
Database_init_db(F) ==
    Database_run_migrations([schema |-> CreateIfNotExists(F.schema), db |-> F.db])

\* The schema of a file this version has created or opened
CurrentSchema == Database_init_db([schema |-> NoFile, db |-> EmptyDb]).schema

\* One row of unified_fts
FtsRow(ctype, cid, sid, sname, title, text) ==
    [content_type    |-> ctype,
     content_id      |-> cid,
     subject_id      |-> sid,
     subject_name    |-> sname,
     title           |-> title,
     searchable_text |-> text]

\* INSERT INTO unified_fts ... (one copy of each row of the SELECT)
FtsInsert(fts, rows) == fts (+) SetToBag(rows)

FtsDelete_Nothing(fts, ctype, cid) == fts

\* DELETE FROM unified_fts WHERE content_type = ? AND content_id = ?
FtsDelete(fts, ctype, cid) ==
    LET keep == {r \in BagToSet(fts) :
                    ~(r.content_type = ctype /\ r.content_id = cid)}
    IN  [r \in keep |-> fts[r]]

\* ... FROM subjects s WHERE s.id = new.subject_id
SubjectsWhereId(D, sid) == {D.subjects[k] : k \in {x \in Stored(D.subjects) : x = sid}}

----------------------------------------------------------------------------
(* The triggers.  D is the database after the row change that fired them. *)

SubjectText(new) ==
    new.name \o <<SP>> \o COALESCE(new.code) \o <<SP>> \o COALESCE(new.description)

subjects_fts_insert(D, new) ==
    [D EXCEPT !.unified_fts = FtsInsert(@,
        {FtsRow("subject", new.id, None, new.name, new.name, SubjectText(new))})]

subjects_fts_delete(D, old) ==
    [D EXCEPT !.unified_fts = FtsDelete(@, "subject", old.id)]

subjects_fts_update(D, old, new) ==
    [D EXCEPT !.unified_fts = FtsInsert(FtsDelete(@, "subject", old.id),
        {FtsRow("subject", new.id, None, new.name, new.name, SubjectText(new))})]

AgendaText(new) == new.title \o <<SP>> \o COALESCE(new.description)

agenda_fts_insert(D, new) ==
    [D EXCEPT !.unified_fts = FtsInsert(@,
        {FtsRow("agenda", new.id, Some(new.subject_id), s.name, new.title,
                AgendaText(new)) : s \in SubjectsWhereId(D, new.subject_id)})]

agenda_fts_delete(D, old) ==
    [D EXCEPT !.unified_fts = FtsDelete(@, "agenda", old.id)]

agenda_fts_update(D, old, new) ==
    [D EXCEPT !.unified_fts = FtsInsert(FtsDelete(@, "agenda", old.id),
        {FtsRow("agenda", new.id, Some(new.subject_id), s.name, new.title,
                AgendaText(new)) : s \in SubjectsWhereId(D, new.subject_id)})]

MeetingTitle(new) == <<"Meeting", SP>> \o DateText(SqlDate(new.date, 0))

MeetingText(new) == <<"Meeting", SP>> \o new.attendees \o <<SP>> \o new.content

meetings_fts_insert(D, new) ==
    [D EXCEPT !.unified_fts = FtsInsert(@,
        {FtsRow("meeting", new.id, Some(new.subject_id), s.name, MeetingTitle(new),
                MeetingText(new)) : s \in SubjectsWhereId(D, new.subject_id)})]

meetings_fts_delete(D, old) ==
    [D EXCEPT !.unified_fts = FtsDelete(@, "meeting", old.id)]

meetings_fts_update(D, old, new) ==
    [D EXCEPT !.unified_fts = FtsInsert(FtsDelete(@, "meeting", old.id),
        {FtsRow("meeting", new.id, Some(new.subject_id), s.name, MeetingTitle(new),
                MeetingText(new)) : s \in SubjectsWhereId(D, new.subject_id)})]

ActionText(new) ==
    new.title \o <<SP>> \o COALESCE(new.description) \o <<SP>> \o COALESCE(new.tags)

actions_fts_insert(D, new) ==
    [D EXCEPT !.unified_fts = FtsInsert(@,
        {FtsRow("action", new.id, Some(new.subject_id), s.name, new.title,
                ActionText(new)) : s \in SubjectsWhereId(D, new.subject_id)})]

\* A table without its AFTER DELETE trigger
actions_fts_delete_Absent(D, old) == D

actions_fts_delete(D, old) ==
    [D EXCEPT !.unified_fts = FtsDelete(@, "action", old.id)]

actions_fts_update(D, old, new) ==
    [D EXCEPT !.unified_fts = FtsInsert(FtsDelete(@, "action", old.id),
        {FtsRow("action", new.id, Some(new.subject_id), s.name, new.title,
                ActionText(new)) : s \in SubjectsWhereId(D, new.subject_id)})]

NoteText(new) == new.title \o <<SP>> \o new.content \o <<SP>> \o COALESCE(new.tags)

notes_fts_insert(D, new) ==
    [D EXCEPT !.unified_fts = FtsInsert(@,
        {FtsRow("note", new.id, Some(new.subject_id), s.name, new.title,
                NoteText(new)) : s \in SubjectsWhereId(D, new.subject_id)})]

notes_fts_delete(D, old) ==
    [D EXCEPT !.unified_fts = FtsDelete(@, "note", old.id)]

notes_fts_update(D, old, new) ==
    [D EXCEPT !.unified_fts = FtsInsert(FtsDelete(@, "note", old.id),
        {FtsRow("note", new.id, Some(new.subject_id), s.name, new.title,
                NoteText(new)) : s \in SubjectsWhereId(D, new.subject_id)})]

\* The AFTER INSERT / AFTER UPDATE / AFTER DELETE trigger of each table
AfterInsert(table, D, new) ==
    CASE table = "subjects"     -> subjects_fts_insert(D, new)
      [] table = "agenda_items" -> agenda_fts_insert(D, new)
      [] table = "meetings"     -> meetings_fts_insert(D, new)
      [] table = "actions"      -> actions_fts_insert(D, new)
      [] table = "notes"        -> notes_fts_insert(D, new)

AfterUpdate(table, D, old, new) ==
    CASE table = "subjects"     -> subjects_fts_update(D, old, new)
      [] table = "agenda_items" -> agenda_fts_update(D, old, new)
      [] table = "meetings"     -> meetings_fts_update(D, old, new)
      [] table = "actions"      -> actions_fts_update(D, old, new)
      [] table = "notes"        -> notes_fts_update(D, old, new)

AfterDelete(table, D, old) ==
    CASE table = "subjects"     -> subjects_fts_delete(D, old)
      [] table = "agenda_items" -> agenda_fts_delete(D, old)
      [] table = "meetings"     -> meetings_fts_delete(D, old)
      [] table = "actions"      -> actions_fts_delete(D, old)
      [] table = "notes"        -> notes_fts_delete(D, old)

----------------------------------------------------------------------------
(* SQL statements, as functions from database to database *)

UniqueConstraintFailed_Never(D, table, row) == FALSE

\* INSERT INTO table VALUES row: fails on a stored primary key
UniqueConstraintFailed(D, table, row) == row.id \in Stored(D[table])

SqlInsert(D, table, row) ==
    AfterInsert(table, [D EXCEPT ![table] = Put(@, row)], row)

SqlUpdate_Upsert(D, table, cols, new) ==
    IF new.id \notin Stored(D[table]) THEN SqlInsert(D, table, new)
    ELSE LET old == D[table][new.id]
             row == [c \in DOMAIN old |-> IF c \in cols THEN new[c] ELSE old[c]]
         IN  AfterUpdate(table, [D EXCEPT ![table] = Put(@, row)], old, row)

SqlUpdate_WholeRow(D, table, cols, new) ==
    IF new.id \notin Stored(D[table]) THEN D
    ELSE AfterUpdate(table, [D EXCEPT ![table] = Put(@, new)], D[table][new.id], new)

\* UPDATE table SET cols = new[cols] WHERE id = new.id: the other columns of
\* the stored row are kept, and the trigger fires for the row changed, if any
SqlUpdate(D, table, cols, new) ==
    IF new.id \notin Stored(D[table]) THEN D
    ELSE LET old == D[table][new.id]
             row == [c \in DOMAIN old |-> IF c \in cols THEN new[c] ELSE old[c]]
         IN  AfterUpdate(table, [D EXCEPT ![table] = Put(@, row)], old, row)

\* DELETE FROM table WHERE <ids>: the trigger fires once for each row deleted
RECURSIVE SqlDelete(_, _, _)
SqlDelete(D, table, ids) ==
    LET hit == ids \cap Stored(D[table])
    IN  IF hit = {} THEN D
        ELSE LET k == CHOOSE x \in hit : TRUE
                 old == D[table][k]
             IN  SqlDelete(AfterDelete(table, [D EXCEPT ![table] = Drop(@, {k})], old),
                           table, hit \ {k})

WhereSubjectId(D, table, sid) == {k \in Stored(D[table]) : D[table][k].subject_id = sid}

----------------------------------------------------------------------------
(* Python entities to rows (the parameter tuples of the INSERT statements) *)

SubjectRow(subject) ==
    [id               |-> subject.id,
     name             |-> subject.name,
     code             |-> subject.code,
     type             |-> EnumValue(subject.type),
     description      |-> subject.description,
     created_at       |-> isoformat(subject.created_at),
     last_reviewed_at |-> isoformat(subject.last_reviewed_at)]

AgendaItemRow(item) ==
    [id                 |-> item.id,
     subject_id         |-> item.subject_id,
     title              |-> item.title,
     description        |-> item.description,
     priority           |-> item.priority,
     status             |-> EnumValue(item.status),
     created_at         |-> isoformat(item.created_at),
     discussed_at       |-> IsoColumn(item.discussed_at),
     is_recurring       |-> IF item.is_recurring # 0 THEN 1 ELSE 0,
     recurrence_pattern |-> IF IsNull(item.recurrence_pattern) THEN None
                            ELSE Some(EnumValue(Val(item.recurrence_pattern)))]

MeetingRow(meeting) ==
    [id         |-> meeting.id,
     subject_id |-> meeting.subject_id,
     title      |-> meeting.title,
     date       |-> isoformat(meeting.date),
     attendees  |-> json_dumps(PyItems(meeting.attendees)),
     content    |-> meeting.content,
     created_at |-> isoformat(meeting.created_at),
     updated_at |-> isoformat(meeting.updated_at)]

ActionRow(action) ==
    [id             |-> action.id,
     subject_id     |-> action.subject_id,
     title          |-> action.title,
     description    |-> action.description,
     status         |-> EnumValue(action.status),
     due_date       |-> IsoColumn(action.due_date),
     created_at     |-> isoformat(action.created_at),
     completed_at   |-> IsoColumn(action.completed_at),
     archived_at    |-> IsoColumn(action.archived_at),
     meeting_id     |-> action.meeting_id,
     note_id        |-> action.note_id,
     agenda_item_id |-> action.agenda_item_id,
     tags           |-> TagsColumn(action.tags)]

NoteRow(note) ==
    [id         |-> note.id,
     subject_id |-> note.subject_id,
     title      |-> note.title,
     content    |-> note.content,
     tags       |-> TagsColumn(note.tags),
     created_at |-> isoformat(note.created_at),
     updated_at |-> isoformat(note.updated_at)]

\* The columns each UPDATE statement sets
SubjectUpdateCols ==
    {"name", "code", "type", "description", "created_at", "last_reviewed_at"}
AgendaItemUpdateCols ==
    {"title", "description", "priority", "status", "discussed_at", "is_recurring",
     "recurrence_pattern"}
MeetingUpdateCols == {"title", "date", "attendees", "content", "updated_at"}
ActionUpdateCols ==
    {"title", "description", "status", "due_date", "completed_at", "archived_at",
     "meeting_id", "note_id", "agenda_item_id", "tags"}
NoteUpdateCols == {"title", "content", "tags", "updated_at"}

----------------------------------------------------------------------------
(* The Database methods that write.  Each runs its statement in the        *)
(* transaction sqlite3 opens implicitly before the first INSERT, UPDATE or *)
(* DELETE, and ends with self.conn.commit().                               *)

Idle == pc = "idle"

\* self.conn.commit(), then return
CommitAndReturn_NoCommit(D, op, id) ==
    /\ conn' = D
    /\ last' = [op |-> op, id |-> id, ok |-> TRUE, at |-> "idle"]
    /\ pre' = EmptyDb
    /\ UNCHANGED <<disk, pc, pc_subject, now, utc_offset, held, schema>>

CommitAndReturn(D, op, id) ==
    /\ conn' = D
    /\ disk' = D
    /\ last' = [op |-> op, id |-> id, ok |-> TRUE, at |-> "idle"]
    /\ pre' = EmptyDb
    /\ UNCHANGED <<pc, pc_subject, now, utc_offset, held, schema>>

\* sqlite3.IntegrityError leaves the method before the commit
Raise(op, id) ==
    /\ last' = [op |-> op, id |-> id, ok |-> FALSE, at |-> "idle"]
    /\ pre' = EmptyDb
    /\ UNCHANGED <<conn, disk, pc, pc_subject, now, utc_offset, held, schema>>

\* cursor.execute("INSERT ..."), self.conn.commit()
Add(op, table, row) ==
    IF UniqueConstraintFailed(conn, table, row)
    THEN Raise(op, row.id)
    ELSE CommitAndReturn(SqlInsert(conn, table, row), op, row.id)

\* cursor.execute("UPDATE ... WHERE id = ?"), self.conn.commit()
Update(op, table, cols, row) ==
    CommitAndReturn(SqlUpdate(conn, table, cols, row), op, row.id)

\* cursor.execute("DELETE ... WHERE id = ?"), self.conn.commit()
Delete(op, table, id) ==
    CommitAndReturn(SqlDelete(conn, table, {id}), op, id)

add_subject(subject) ==
    /\ Idle
    /\ Add("add_subject", "subjects", SubjectRow(subject))

update_subject(subject) ==
    /\ Idle
    /\ Update("update_subject", "subjects", SubjectUpdateCols, SubjectRow(subject))

add_agenda_item(item) ==
    /\ Idle
    /\ Add("add_agenda_item", "agenda_items", AgendaItemRow(item))

update_agenda_item(item) ==
    /\ Idle
    /\ Update("update_agenda_item", "agenda_items", AgendaItemUpdateCols, AgendaItemRow(item))

delete_agenda_item(item_id) ==
    /\ Idle
    /\ Delete("delete_agenda_item", "agenda_items", item_id)

add_meeting(meeting) ==
    /\ Idle
    /\ Add("add_meeting", "meetings", MeetingRow(meeting))

update_meeting(meeting) ==
    /\ Idle
    /\ Update("update_meeting", "meetings", MeetingUpdateCols, MeetingRow(meeting))

delete_meeting_Cascading(meeting_id) ==
    /\ Idle
    /\ CommitAndReturn(
          SqlDelete(SqlDelete(conn, "actions",
                              {k \in Stored(conn.actions) :
                                  conn.actions[k].meeting_id = Some(meeting_id)}),
                    "meetings", {meeting_id}),
          "delete_meeting", meeting_id)

delete_meeting(meeting_id) ==
    /\ Idle
    /\ Delete("delete_meeting", "meetings", meeting_id)

add_action(action) ==
    /\ Idle
    /\ Add("add_action", "actions", ActionRow(action))

update_action(action) ==
    /\ Idle
    /\ Update("update_action", "actions", ActionUpdateCols, ActionRow(action))

delete_action(action_id) ==
    /\ Idle
    /\ Delete("delete_action", "actions", action_id)

add_note(note) ==
    /\ Idle
    /\ Add("add_note", "notes", NoteRow(note))

update_note(note) ==
    /\ Idle
    /\ Update("update_note", "notes", NoteUpdateCols, NoteRow(note))

delete_note(note_id) ==
    /\ Idle
    /\ Delete("delete_note", "notes", note_id)

----------------------------------------------------------------------------
(* delete_subject: five DELETE statements, then one commit.  The process   *)
(* can die between two statements; the next start finds the file as last   *)
(* committed.                                                              *)

\* What a statement leaves in the database file under isolation_level=None,
\* where every statement is its own transaction
FileAfterStatement_Autocommit(file, D) == D

\* What a statement executed inside the open transaction leaves in the
\* database file: nothing until the commit (sqlite3.connect with the
\* default isolation_level)
FileAfterStatement(file, D) == file

NoSubject == ""

CascadeOrder == <<"agenda_items", "meetings", "actions", "notes", "subjects">>

\* A DELETE without its WHERE subject_id = ?
CascadeIds_NoWhere(D, table, sid) ==
    IF table = "subjects" THEN {sid} ELSE Stored(D[table])

CascadeIds(D, table, sid) ==
    IF table = "subjects" THEN {sid} ELSE WhereSubjectId(D, table, sid)

CascadeStatement(k, next_pc, sid) ==
    LET D == SqlDelete(conn, CascadeOrder[k], CascadeIds(conn, CascadeOrder[k], sid))
    IN  /\ conn' = D
        /\ disk' = FileAfterStatement(disk, D)
        /\ pc' = next_pc
        /\ pc_subject' = sid
        /\ last' = [op |-> "delete_subject", id |-> sid, ok |-> FALSE, at |-> "running"]
        /\ UNCHANGED <<now, utc_offset, held, schema>>

delete_subject_agenda_items(subject_id) ==
    /\ Idle
    /\ pre' = conn
    /\ CascadeStatement(1, "meetings", subject_id)

delete_subject_meetings ==
    /\ pc = "meetings"
    /\ CascadeStatement(2, "actions", pc_subject)
    /\ UNCHANGED pre

delete_subject_actions ==
    /\ pc = "actions"
    /\ CascadeStatement(3, "notes", pc_subject)
    /\ UNCHANGED pre

delete_subject_notes ==
    /\ pc = "notes"
    /\ CascadeStatement(4, "subject", pc_subject)
    /\ UNCHANGED pre

delete_subject_subject ==
    /\ pc = "subject"
    /\ CascadeStatement(5, "commit", pc_subject)
    /\ UNCHANGED pre

delete_subject_commit ==
    /\ pc = "commit"
    /\ conn' = conn
    /\ disk' = conn
    /\ pc' = "idle"
    /\ pc_subject' = NoSubject
    /\ last' = [op |-> "delete_subject", id |-> pc_subject, ok |-> TRUE, at |-> "idle"]
    /\ UNCHANGED <<pre, now, utc_offset, held, schema>>

\* The process dies inside delete_subject and the application is started
\* again: the open transaction is rolled back from the journal
Crash ==
    /\ pc \notin {"idle"}
    /\ conn' = disk
    /\ pc' = "idle"
    /\ pc_subject' = NoSubject
    /\ last' = [op |-> "crash", id |-> pc_subject, ok |-> FALSE, at |-> pc]
    /\ UNCHANGED <<disk, pre, now, utc_offset, held, schema>>

\* Time passes
Now0 == 66
MaxNow == 67

Tick ==
    /\ Idle
    /\ now < MaxNow
    /\ now' = now + 1
    /\ UNCHANGED <<conn, disk, pc, pc_subject, pre, utc_offset, last, held, schema>>

----------------------------------------------------------------------------
(* Python entities to flat dicts (models.py to_dict) *)

Subject_to_dict(self) ==
    [id               |-> self.id,
     name             |-> self.name,
     type             |-> EnumValue(self.type),
     code             |-> self.code,
     description      |-> self.description,
     created_at       |-> isoformat(self.created_at),
     last_reviewed_at |-> isoformat(self.last_reviewed_at)]

AgendaItem_to_dict(self) ==
    [id                 |-> self.id,
     subject_id         |-> self.subject_id,
     title              |-> self.title,
     description        |-> self.description,
     priority           |-> self.priority,
     status             |-> EnumValue(self.status),
     created_at         |-> isoformat(self.created_at),
     discussed_at       |-> IsoColumn(self.discussed_at),
     is_recurring       |-> self.is_recurring,
     recurrence_pattern |-> IF IsNull(self.recurrence_pattern) THEN None
                            ELSE Some(EnumValue(Val(self.recurrence_pattern)))]

Meeting_to_dict(self) ==
    [id         |-> self.id,
     subject_id |-> self.subject_id,
     date       |-> isoformat(self.date),
     attendees  |-> self.attendees,
     content    |-> self.content,
     created_at |-> isoformat(self.created_at),
     updated_at |-> isoformat(self.updated_at)]

Action_to_dict(self) ==
    [id             |-> self.id,
     subject_id     |-> self.subject_id,
     title          |-> self.title,
     description    |-> self.description,
     status         |-> EnumValue(self.status),
     due_date       |-> IsoColumn(self.due_date),
     created_at     |-> isoformat(self.created_at),
     completed_at   |-> IsoColumn(self.completed_at),
     archived_at    |-> IsoColumn(self.archived_at),
     meeting_id     |-> self.meeting_id,
     agenda_item_id |-> self.agenda_item_id,
     tags           |-> self.tags]

Note_to_dict(self) ==
    [id         |-> self.id,
     subject_id |-> self.subject_id,
     title      |-> self.title,
     content    |-> self.content,
     tags       |-> self.tags,
     created_at |-> isoformat(self.created_at),
     updated_at |-> isoformat(self.updated_at)]

----------------------------------------------------------------------------
(* Rows back to Python entities (models.py from_dict) *)

fromisoformat_DateOnly(iso) == iso[1] * TicksPerDay

fromisoformat(iso) == iso[1] * TicksPerDay + iso[2]

OptDatetime(x) == IF IsNull(x) THEN None ELSE Some(fromisoformat(Val(x)))

Subject_from_dict(data) ==
    [id               |-> data.id,
     name             |-> data.name,
     type             |-> SubjectType(data.type),
     code             |-> data.code,
     description      |-> data.description,
     created_at       |-> fromisoformat(data.created_at),
     last_reviewed_at |-> fromisoformat(data.last_reviewed_at)]

AgendaItem_from_dict(data) ==
    [id                 |-> data.id,
     subject_id         |-> data.subject_id,
     title              |-> data.title,
     description        |-> data.description,
     priority           |-> data.priority,
     status             |-> AgendaStatus(data.status),
     created_at         |-> fromisoformat(data.created_at),
     discussed_at       |-> OptDatetime(data.discussed_at),
     is_recurring       |-> data.is_recurring,
     recurrence_pattern |-> IF IsNull(data.recurrence_pattern) THEN None
                            ELSE Some(RecurrencePattern(Val(data.recurrence_pattern)))]

Meeting_from_dict(data) ==
    [id         |-> data.id,
     subject_id |-> data.subject_id,
     date       |-> fromisoformat(data.date),
     attendees  |-> data.attendees,
     content    |-> data.content,
     created_at |-> fromisoformat(data.created_at),
     updated_at |-> fromisoformat(data.updated_at)]

Action_from_dict(data) ==
    [id             |-> data.id,
     subject_id     |-> data.subject_id,
     title          |-> data.title,
     description    |-> data.description,
     status         |-> ActionStatus(data.status),
     due_date       |-> OptDatetime(data.due_date),
     created_at     |-> fromisoformat(data.created_at),
     completed_at   |-> OptDatetime(data.completed_at),
     archived_at    |-> OptDatetime(data.archived_at),
     meeting_id     |-> data.meeting_id,
     agenda_item_id |-> data.agenda_item_id,
     tags           |-> IF "tags" \in DOMAIN data THEN data.tags ELSE PyList(<<>>)]

Note_from_dict(data) ==
    [id         |-> data.id,
     subject_id |-> data.subject_id,
     title      |-> data.title,
     content    |-> data.content,
     tags       |-> IF "tags" \in DOMAIN data THEN data.tags ELSE PyList(<<>>),
     created_at |-> fromisoformat(data.created_at),
     updated_at |-> fromisoformat(data.updated_at)]

----------------------------------------------------------------------------
(* The Database methods that read, as functions of the connection's view *)

\* dict(row) of a sqlite3.Row: a NULL column is None and a TEXT column a str.
\* The columns whose model attribute is a list carry their Python type.
dict(row) ==
    [c \in DOMAIN row |->
        IF c = "tags" THEN (IF IsNull(row[c]) THEN PyNone ELSE PyStr(Val(row[c])))
        ELSE IF c = "attendees" THEN PyStr(row[c])
        ELSE row[c]]

FetchOne_NoWhere(D, table, id) ==
    IF Stored(D[table]) = {} THEN None
    ELSE Some(D[table][CHOOSE k \in Stored(D[table]) : TRUE])

\* SELECT * FROM table WHERE id = ?; fetchone()
FetchOne(D, table, id) == IF id \in Stored(D[table]) THEN Some(D[table][id]) ELSE None

get_subject(D, subject_id) ==
    LET row == FetchOne(D, "subjects", subject_id)
    IN  IF IsNull(row) THEN None ELSE Some(Subject_from_dict(dict(Val(row))))

get_agenda_item(D, item_id) ==
    LET row == FetchOne(D, "agenda_items", item_id)
    IN  IF IsNull(row) THEN None ELSE Some(AgendaItem_from_dict(dict(Val(row))))

get_meeting(D, meeting_id) ==
    LET row == FetchOne(D, "meetings", meeting_id)
    IN  IF IsNull(row) THEN None ELSE Some(Meeting_from_dict(dict(Val(row))))

get_action(D, action_id) ==
    LET row == FetchOne(D, "actions", action_id)
    IN  IF IsNull(row) THEN None ELSE Some(Action_from_dict(dict(Val(row))))

get_note(D, note_id) ==
    LET row == FetchOne(D, "notes", note_id)
    IN  IF IsNull(row) THEN None ELSE Some(Note_from_dict(dict(Val(row))))

\* The rows of a table with a given subject_id
RowsOfSubject(D, table, sid) == {D[table][k] : k \in WhereSubjectId(D, table, sid)}

\* ORDER BY col ASC on a nullable TEXT column: SQLite sorts NULL first
NullsFirstAsc(x, y) ==
    \/ IsNull(x) /\ ~IsNull(y)
    \/ ~IsNull(x) /\ ~IsNull(y) /\ StrLess(Val(x), Val(y))

NullsLastAsc_Plain(x, y) ==
    \/ IsNull(x) /\ ~IsNull(y)
    \/ ~IsNull(x) /\ ~IsNull(y) /\ StrLess(Val(x), Val(y))

\* ORDER BY CASE WHEN col IS NULL THEN 1 ELSE 0 END, col ASC
NullsLastAsc(x, y) ==
    \/ ~IsNull(x) /\ IsNull(y)
    \/ ~IsNull(x) /\ ~IsNull(y) /\ StrLess(Val(x), Val(y))

\* Row a sorts strictly before row b under an ORDER BY clause
Before(order_by, a, b) ==
    CASE order_by = "due_date ASC"    -> NullsFirstAsc(a.due_date, b.due_date)
      [] order_by = "priority DESC"   -> a.priority > b.priority
      [] order_by = "date DESC"       -> StrLess(b.date, a.date)
      [] order_by = "updated_at DESC" -> StrLess(b.updated_at, a.updated_at)
      [] order_by = "created_at DESC" -> StrLess(b.created_at, a.created_at)
      [] order_by = "CASE WHEN due_date IS NULL THEN 1 ELSE 0 END, due_date ASC"
            -> NullsLastAsc(a.row.due_date, b.row.due_date)

\* The result lists an ORDER BY may produce for a set of rows: every
\* arrangement of the rows in which no row precedes one that sorts strictly
\* before it (SQLite leaves the order of ties open)
SortedLists(rows, order_by) ==
    LET n == Cardinality(rows)
    IN  {l \in [1..n -> rows] :
            /\ \A i, j \in 1..n : i # j => l[i] # l[j]
            /\ \A i, j \in 1..n : i < j => ~Before(order_by, l[j], l[i])}

\* SELECT * FROM actions WHERE subject_id = ? ORDER BY due_date ASC
get_actions(D, subject_id) ==
    {[i \in DOMAIN l |-> Action_from_dict(dict(l[i]))] :
        l \in SortedLists(RowsOfSubject(D, "actions", subject_id), "due_date ASC")}

\* ... ORDER BY priority DESC
get_agenda_items(D, subject_id) ==
    {[i \in DOMAIN l |-> AgendaItem_from_dict(dict(l[i]))] :
        l \in SortedLists(RowsOfSubject(D, "agenda_items", subject_id), "priority DESC")}

\* ... ORDER BY date DESC
get_meetings(D, subject_id) ==
    {[i \in DOMAIN l |-> Meeting_from_dict(dict(l[i]))] :
        l \in SortedLists(RowsOfSubject(D, "meetings", subject_id), "date DESC")}

\* ... ORDER BY updated_at DESC
get_notes(D, subject_id) ==
    {[i \in DOMAIN l |-> Note_from_dict(dict(l[i]))] :
        l \in SortedLists(RowsOfSubject(D, "notes", subject_id), "updated_at DESC")}

----------------------------------------------------------------------------
(* get_actions_by_timeframe *)

Timeframes == {"today", "week", "next_week", "all"}

\* The conditions list.  Each condition is the sequence of the terms its
\* text joins with OR (one term, but for the condition of "all").
Conditions(timeframe, include_archived) ==
    (IF ~include_archived THEN << <<"archived_at IS NULL">> >> ELSE <<>>)
    \o
    (CASE timeframe = "today" -> << <<"date(due_date) = date(?)">> >>
       [] timeframe = "week" ->
            << <<"date(due_date) BETWEEN date(?) AND date(?, '+7 days')">> >>
       [] timeframe = "next_week" ->
            << <<"date(due_date) BETWEEN date(?, '+8 days') AND date(?, '+14 days')">> >>
       [] timeframe = "all" ->
            IF ~include_archived
            THEN << <<"status != 'done'", "completed_at >= date('now', '-7 days')">> >>
            ELSE <<>>
       [] OTHER -> <<>>)

\* " AND ".join(conditions), read as SQL reads it: AND binds tighter than
\* OR, so the text is a disjunction of conjunctions.  The last conjunction
\* so far takes the first term of the next condition; the further terms of
\* that condition each open a conjunction of their own.
RECURSIVE JoinAnd(_, _)
JoinAnd(groups, conditions) ==
    IF conditions = <<>> THEN groups
    ELSE LET c == Head(conditions)
             n == Len(groups)
             joined ==
                IF n = 0 THEN [i \in 1..Len(c) |-> <<c[i]>>]
                ELSE [i \in 1..(n + Len(c) - 1) |->
                        IF i < n THEN groups[i]
                        ELSE IF i = n THEN Append(groups[n], c[1])
                        ELSE <<c[i - n + 1]>>]
         IN  JoinAnd(joined, Tail(conditions))

where_clause(conditions) == JoinAnd(<<>>, conditions)

\* date('now'): SQLite's clock is UTC
UtcNow(local_now, offset) == local_now - offset

\* TermHolds with the week window one day short (BETWEEN date(?) AND
\* date(?, '+6 days'))
TermHolds_WeekShort(term, a, local_now, offset) ==
    LET today == isoformat(local_now)
    IN  CASE term = "archived_at IS NULL" -> IsNull(a.archived_at)
          [] term = "date(due_date) = date(?)" ->
                /\ ~IsNull(a.due_date)
                /\ SqlDate(Val(a.due_date), 0) = SqlDate(today, 0)
          [] term = "date(due_date) BETWEEN date(?) AND date(?, '+7 days')" ->
                /\ ~IsNull(a.due_date)
                /\ StrLessEq(SqlDate(today, 0), SqlDate(Val(a.due_date), 0))
                /\ StrLessEq(SqlDate(Val(a.due_date), 0), SqlDate(today, 6))
          [] term = "date(due_date) BETWEEN date(?, '+8 days') AND date(?, '+14 days')" ->
                /\ ~IsNull(a.due_date)
                /\ StrLessEq(SqlDate(today, 8), SqlDate(Val(a.due_date), 0))
                /\ StrLessEq(SqlDate(Val(a.due_date), 0), SqlDate(today, 14))
          [] term = "status != 'done'" -> a.status # "done"
          [] term = "completed_at >= date('now', '-7 days')" ->
                /\ ~IsNull(a.completed_at)
                /\ StrLessEq(SqlDate(isoformat(UtcNow(local_now, offset)), -7),
                             Val(a.completed_at))

\* TermHolds with every term true of a row whose due_date is NULL
TermHolds_NullDueMatches(term, a, local_now, offset) ==
    IsNull(a.due_date) \/ TermHolds_WeekShort(term, a, local_now, offset)

\* The truth of one term for a row of actions; a comparison with NULL is
\* not true
TermHolds(term, a, local_now, offset) ==
    LET today == isoformat(local_now)
    IN  CASE term = "archived_at IS NULL" -> IsNull(a.archived_at)
          [] term = "date(due_date) = date(?)" ->
                /\ ~IsNull(a.due_date)
                /\ SqlDate(Val(a.due_date), 0) = SqlDate(today, 0)
          [] term = "date(due_date) BETWEEN date(?) AND date(?, '+7 days')" ->
                /\ ~IsNull(a.due_date)
                /\ StrLessEq(SqlDate(today, 0), SqlDate(Val(a.due_date), 0))
                /\ StrLessEq(SqlDate(Val(a.due_date), 0), SqlDate(today, 7))
          [] term = "date(due_date) BETWEEN date(?, '+8 days') AND date(?, '+14 days')" ->
                /\ ~IsNull(a.due_date)
                /\ StrLessEq(SqlDate(today, 8), SqlDate(Val(a.due_date), 0))
                /\ StrLessEq(SqlDate(Val(a.due_date), 0), SqlDate(today, 14))
          [] term = "status != 'done'" -> a.status # "done"
          [] term = "completed_at >= date('now', '-7 days')" ->
                /\ ~IsNull(a.completed_at)
                /\ StrLessEq(SqlDate(isoformat(UtcNow(local_now, offset)), -7),
                             Val(a.completed_at))

WhereHolds(groups, a, local_now, offset) ==
    IF groups = <<>> THEN TRUE   \* "1=1"
    ELSE \E i \in DOMAIN groups :
            \A j \in DOMAIN groups[i] : TermHolds(groups[i][j], a, local_now, offset)

\* FROM actions a JOIN subjects s ON a.subject_id = s.id WHERE ...
\* SELECT a.*, s.name as subject_name
TimeframeRows(D, timeframe, include_archived, local_now, offset) ==
    LET w == where_clause(Conditions(timeframe, include_archived))
    IN  {[row |-> D.actions[k], subject_name |-> s.name] :
            <<k, s>> \in {<<k2, s2>> \in Stored(D.actions) \X
                                     {D.subjects[x] : x \in Stored(D.subjects)} :
                            /\ D.actions[k2].subject_id = s2.id
                            /\ WhereHolds(w, D.actions[k2], local_now, offset)}}

get_actions_by_timeframe(D, timeframe, include_archived, local_now, offset) ==
    SortedLists(TimeframeRows(D, timeframe, include_archived, local_now, offset),
                "CASE WHEN due_date IS NULL THEN 1 ELSE 0 END, due_date ASC")

----------------------------------------------------------------------------
(* search *)

ContentTypes == {"subject", "agenda", "meeting", "action", "note"}

\* The columns of an index row: fts5 indexes every column of unified_fts
Columns(r) ==
    <<<<r.content_type>>, <<r.content_id>>,
      IF IsNull(r.subject_id) THEN EMPTY ELSE <<Val(r.subject_id)>>,
      r.subject_name, r.title, r.searchable_text>>

\* The fts5 query syntax, for queries of words, blanks, commas and double
\* quotes: a query is a list of phrases, each a bare word or a string
\* between double quotes, in which "" stands for a quote character.

\* The position of the quote that closes the string whose text starts at k,
\* or 0 when the string is not terminated
RECURSIVE Closing(_, _)
Closing(q, k) ==
    IF k > Len(q) THEN 0
    ELSE IF q[k] # QUOTE THEN Closing(q, k + 1)
    ELSE IF k + 1 <= Len(q) /\ q[k + 1] = QUOTE THEN Closing(q, k + 2)
    ELSE k

\* The position after the bare word that starts at i
RECURSIVE WordEnd(_, _)
WordEnd(q, i) ==
    IF i > Len(q) \/ q[i] \in Separators THEN i ELSE WordEnd(q, i + 1)

\* fts5 rejects the query: "fts5: syntax error near ..." for a comma outside
\* a string, "unterminated string" for an unbalanced quote
RECURSIVE SyntaxErrorFrom(_, _)
SyntaxErrorFrom(q, i) ==
    IF i > Len(q) THEN FALSE
    ELSE IF q[i] = SP THEN SyntaxErrorFrom(q, i + 1)
    ELSE IF q[i] = COMMA THEN TRUE
    ELSE IF q[i] = QUOTE
         THEN (Closing(q, i + 1) = 0 \/ SyntaxErrorFrom(q, Closing(q, i + 1) + 1))
         ELSE SyntaxErrorFrom(q, WordEnd(q, i))

FtsSyntaxError(query) == SyntaxErrorFrom(query, 1)

\* The phrases of a well-formed query, each the sequence of its tokens
RECURSIVE PhrasesFrom(_, _)
PhrasesFrom(q, i) ==
    IF i > Len(q) THEN {}
    ELSE IF q[i] = SP \/ q[i] = COMMA THEN PhrasesFrom(q, i + 1)
    ELSE IF q[i] = QUOTE
         THEN {TokenSeq(SubSeq(q, i + 1, Closing(q, i + 1) - 1))}
              \cup PhrasesFrom(q, Closing(q, i + 1) + 1)
         ELSE {TokenSeq(SubSeq(q, i, WordEnd(q, i) - 1))} \cup PhrasesFrom(q, WordEnd(q, i))

Phrases(query) == PhrasesFrom(query, 1)

\* The tokens of the phrase occur next to each other, in order, in one
\* column of the row
PhraseMatch(r, phrase) ==
    \E c \in DOMAIN Columns(r) :
        LET toks == TokenSeq(Columns(r)[c])
        IN  \E k \in 0..(Len(toks) - Len(phrase)) :
                SubSeq(toks, k + 1, k + Len(phrase)) = phrase

\* unified_fts MATCH ?: the rows that match every phrase of the query; a
\* phrase without a token is skipped, and a query of no other phrase
\* matches nothing
Match(r, query) ==
    LET ps == Phrases(query) \ {<<>>}
    IN  ps # {} /\ \A p \in ps : PhraseMatch(r, p)

\* not query or not query.strip()
IsBlank(query) == \A i \in DOMAIN query : query[i] = SP

SearchLimit == 50

\* ORDER BY rank LIMIT n: all rows when there are at most n, else n of them.
\* Which rows the limit cuts is decided by the bm25 rank, which is not
\* modelled: nothing below depends on which rows are cut.
RECURSIVE Limit(_, _)
Limit(rows, n) ==
    IF Cardinality(rows) <= n THEN rows
    ELSE Limit(rows \ {CHOOSE r \in rows : TRUE}, n)

\* The exception conn.execute raises for the query, if any
ExecuteRaises(query) ==
    IF FtsSyntaxError(query) THEN Some("OperationalError") ELSE None

Caught_Nothing(exc) == FALSE

\* except sqlite3.OperationalError
Caught(exc) == exc = "OperationalError"

\* The exception search raises to its caller, if any
search_raises(query) ==
    IF IsBlank(query) THEN None
    ELSE IF ~IsNull(ExecuteRaises(query)) /\ ~Caught(Val(ExecuteRaises(query)))
         THEN ExecuteRaises(query)
         ELSE None

search_Unfiltered(D, query, content_types) ==
    IF IsBlank(query) \/ ~IsNull(ExecuteRaises(query)) THEN {}
    ELSE Limit({r \in BagToSet(D.unified_fts) : Match(r, query)}, SearchLimit)

\* The index rows search returns; content_types is None or Some(set of
\* types), and an empty list of types is no filter (if content_types:).
search(D, query, content_types) ==
    IF IsBlank(query) \/ ~IsNull(ExecuteRaises(query)) THEN {}
    ELSE Limit({r \in BagToSet(D.unified_fts) :
                  /\ Match(r, query)
                  /\ (IsNull(content_types) \/ Val(content_types) = {}
                      \/ r.content_type \in Val(content_types))},
               SearchLimit)

----------------------------------------------------------------------------
(* The entities the calls are made with *)

SubjectIds == {"s1", "s2"}
NamesOf(id) == IF id = "s1" THEN {<<"alpha">>, <<"beta">>} ELSE {<<"gamma">>}

NewSubject(id, name, description) ==
    [id               |-> id,
     name             |-> name,
     code             |-> None,
     type             |-> SubjectType("project"),
     description      |-> description,
     created_at       |-> Now0,
     last_reviewed_at |-> Now0]

NewAgendaItem(id, sid, title, description) ==
    [id                 |-> id,
     subject_id         |-> sid,
     title              |-> title,
     description        |-> description,
     priority           |-> 5,
     status             |-> AgendaStatus("active"),
     created_at         |-> Now0,
     discussed_at       |-> None,
     is_recurring       |-> 0,
     recurrence_pattern |-> None]

NewMeeting(id, sid, attendees, content) ==
    [id         |-> id,
     subject_id |-> sid,
     title      |-> <<"sync">>,
     date       |-> Now0,
     attendees  |-> PyList(attendees),
     content    |-> content,
     created_at |-> Now0,
     updated_at |-> Now0]

NewAction(id, sid, title, tags, status, due_date, completed_at, archived_at) ==
    [id             |-> id,
     subject_id     |-> sid,
     title          |-> title,
     description    |-> None,
     status         |-> ActionStatus(status),
     due_date       |-> due_date,
     created_at     |-> Now0,
     completed_at   |-> completed_at,
     archived_at    |-> archived_at,
     meeting_id     |-> None,
     note_id        |-> None,
     agenda_item_id |-> None,
     tags           |-> PyList(tags)]

NewNote(id, sid, title, content) ==
    [id         |-> id,
     subject_id |-> sid,
     title      |-> title,
     content    |-> content,
     tags       |-> PyList(<<>>),
     created_at |-> Now0,
     updated_at |-> Now0]

\* No to_dict / from_dict caller
NoObject == [at |-> "none"]

Init ==
    /\ conn = EmptyDb
    /\ disk = EmptyDb
    /\ pc = "idle"
    /\ pc_subject = NoSubject
    /\ pre = EmptyDb
    /\ now = Now0
    /\ utc_offset = 0
    /\ held = NoObject
    /\ schema = CurrentSchema
    /\ last = [op |-> "init", id |-> "", ok |-> TRUE, at |-> "idle"]

----------------------------------------------------------------------------
(* Spec: two subjects with their agenda items, meetings, actions and       *)
(* notes; every call of the CRUD interface, the cascade and the crash.     *)

AgendaIds == {"g1"}
MeetingIds == {"m1"}
ActionIds == {"a1"}
NoteIds == {"n1"}

Subjects ==
    UNION {{NewSubject(id, name, None) : name \in NamesOf(id)} : id \in SubjectIds}
AgendaItems == {NewAgendaItem(id, sid, <<"topic">>, None) : id \in AgendaIds, sid \in SubjectIds}
Meetings == {NewMeeting(id, sid, <<<<"ann">>>>, <<"minutes">>) : id \in MeetingIds, sid \in SubjectIds}
Actions ==
    {NewAction(id, sid, <<"fix">>, <<>>, "todo", None, None, None) :
        id \in ActionIds, sid \in SubjectIds}
Notes == {NewNote(id, sid, <<"memo">>, <<"body">>) : id \in NoteIds, sid \in SubjectIds}

Next ==
    \/ \E e \in Subjects : add_subject(e)
    \/ \E e \in Subjects : update_subject(e)
    \/ \E e \in AgendaItems : add_agenda_item(e)
    \/ \E e \in AgendaItems : update_agenda_item(e)
    \/ \E id \in AgendaIds : delete_agenda_item(id)
    \/ \E e \in Meetings : add_meeting(e)
    \/ \E e \in Meetings : update_meeting(e)
    \/ \E id \in MeetingIds : delete_meeting(id)
    \/ \E e \in Actions : add_action(e)
    \/ \E e \in Actions : update_action(e)
    \/ \E id \in ActionIds : delete_action(id)
    \/ \E e \in Notes : add_note(e)
    \/ \E e \in Notes : update_note(e)
    \/ \E id \in NoteIds : delete_note(id)
    \/ \E sid \in SubjectIds : delete_subject_agenda_items(sid)
    \/ delete_subject_meetings
    \/ delete_subject_actions
    \/ delete_subject_notes
    \/ delete_subject_subject
    \/ delete_subject_commit
    \/ Crash

Spec == Init /\ [][Next]_vars

----------------------------------------------------------------------------
(* SpecCascade: two subjects, each with up to two actions and an agenda    *)
(* item, a meeting and a note; entities are added, subjects are deleted,   *)
(* and the process can die inside delete_subject.                          *)

CascadeActionIds == {"a1", "a2"}

CascadeActions ==
    {NewAction(id, sid, <<"fix">>, <<>>, "todo", None, None, None) :
        id \in CascadeActionIds, sid \in SubjectIds}

NextCascade ==
    \/ \E e \in Subjects : add_subject(e)
    \/ \E e \in AgendaItems : add_agenda_item(e)
    \/ \E e \in Meetings : add_meeting(e)
    \/ \E e \in CascadeActions : add_action(e)
    \/ \E e \in Notes : add_note(e)
    \/ \E sid \in SubjectIds : delete_subject_agenda_items(sid)
    \/ delete_subject_meetings
    \/ delete_subject_actions
    \/ delete_subject_notes
    \/ delete_subject_subject
    \/ delete_subject_commit
    \/ Crash

SpecCascade == Init /\ [][NextCascade]_vars

----------------------------------------------------------------------------
(* SpecText: one subject and one entity of each kind, each written with    *)
(* either of two texts, added and updated in any order.                    *)

TextSubjects == {NewSubject("s1", <<"alpha">>, d) : d \in {None, Some(<<"board">>)}}
TextAgendaItems ==
    {NewAgendaItem("g1", "s1", t, None) : t \in {<<"topic">>, <<"budget">>}}
TextMeetings ==
    {NewMeeting("m1", "s1", <<<<"ann">>>>, c) : c \in {<<"minutes">>, <<"decisions">>}}
TextActions ==
    {NewAction("a1", "s1", t, <<>>, "todo", None, None, None) :
        t \in {<<"fix">>, <<"repair">>}}
TextNotes == {NewNote("n1", "s1", <<"memo">>, c) : c \in {<<"body">>, <<"summary">>}}

NextText ==
    \/ \E e \in TextSubjects : add_subject(e)
    \/ \E e \in TextSubjects : update_subject(e)
    \/ \E e \in TextAgendaItems : add_agenda_item(e)
    \/ \E e \in TextAgendaItems : update_agenda_item(e)
    \/ \E e \in TextMeetings : add_meeting(e)
    \/ \E e \in TextMeetings : update_meeting(e)
    \/ \E e \in TextActions : add_action(e)
    \/ \E e \in TextActions : update_action(e)
    \/ \E e \in TextNotes : add_note(e)
    \/ \E e \in TextNotes : update_note(e)

SpecText == Init /\ [][NextText]_vars

----------------------------------------------------------------------------
(* SpecTF: one subject and one action whose status, due date, completion   *)
(* and archive dates take every combination of the values below, read by   *)
(* get_actions_by_timeframe while the clock runs, in three time zones.     *)

Statuses == {"todo", "in_progress", "done"}

DaysFromNow0(d) == Now0 + d * TicksPerDay

\* Due yesterday, today, and at the edges of the two windows
DueDates == {None} \cup {Some(DaysFromNow0(d)) : d \in {-1, 0, 7, 8, 14, 15}}

\* Completed eight days ago, one tick either side of seven days ago, now
CompletedAts ==
    {None, Some(DaysFromNow0(-8)), Some(DaysFromNow0(-7) - 1),
     Some(DaysFromNow0(-7) + 1), Some(Now0)}

ArchivedAts == {None, Some(Now0)}

\* Local time minus UTC: twelve hours behind, none, twelve hours ahead
UtcOffsets == {-(TicksPerDay \div 2), 0, TicksPerDay \div 2}

TFSubjects == {NewSubject("s1", <<"alpha">>, None)}

TFActions ==
    {NewAction("a1", "s1", <<"fix">>, <<>>, st, due, done, arch) :
        st \in Statuses, due \in DueDates, done \in CompletedAts, arch \in ArchivedAts}

InitTF ==
    /\ conn = EmptyDb
    /\ disk = EmptyDb
    /\ pc = "idle"
    /\ pc_subject = NoSubject
    /\ pre = EmptyDb
    /\ now = Now0
    /\ utc_offset \in UtcOffsets
    /\ held = NoObject
    /\ schema = CurrentSchema
    /\ last = [op |-> "init", id |-> "", ok |-> TRUE, at |-> "idle"]

NextTF ==
    \/ \E e \in TFSubjects : add_subject(e)
    \/ \E e \in TFActions : add_action(e)
    \/ \E e \in TFActions : update_action(e)
    \/ \E id \in {"a1"} : delete_action(id)
    \/ Tick

SpecTF == InitTF /\ [][NextTF]_vars

----------------------------------------------------------------------------
(* SpecOrder: one subject and three actions with no due date or one of two *)
(* due dates, read by get_actions.                                         *)

OrderActionIds == {"a1", "a2", "a3"}
OrderDueDates == {None, Some(DaysFromNow0(1)), Some(DaysFromNow0(2))}

OrderActions ==
    {NewAction(id, "s1", <<"fix">>, <<>>, "todo", due, None, None) :
        id \in OrderActionIds, due \in OrderDueDates}

NextOrder ==
    \/ \E e \in TFSubjects : add_subject(e)
    \/ \E e \in OrderActions : add_action(e)
    \/ \E e \in OrderActions : update_action(e)
    \/ \E id \in OrderActionIds : delete_action(id)

SpecOrder == Init /\ [][NextOrder]_vars

\* The ids of the actions a timeframe query returns now
Returned(timeframe, include_archived) ==
    {r.row.id : r \in TimeframeRows(conn, timeframe, include_archived, now, utc_offset)}

\* The stored actions a default view is meant to show: not archived, and
\* of a stored subject
Listed == {k \in Stored(conn.actions) :
            /\ IsNull(conn.actions[k].archived_at)
            /\ conn.actions[k].subject_id \in Stored(conn.subjects)}

\* The calendar day of a stored datetime, and today's
DayOf(iso) == iso[1]
Today == Day(now)

\* C1: get_actions_by_timeframe(tf, include_archived=False) never returns an
\* action whose archived_at is non-null, for every timeframe.
C1_ArchivedNeverReturned ==
    \A tf \in Timeframes :
        \A r \in TimeframeRows(conn, tf, FALSE, now, utc_offset) :
            IsNull(r.row.archived_at)

\* C7: with today = day D, a listed action due at D is returned by today;
\* due at any day of [D, D+7] it is returned by week; due at D+8 it is
\* returned by next_week and not by week; due at D+15 it is returned by
\* neither week nor next_week.
C7_TimeframeBoundaries ==
    \A k \in Listed :
        LET due == conn.actions[k].due_date
        IN  ~IsNull(due) =>
                LET d == DayOf(Val(due)) - Today
                IN  /\ d = 0 => k \in Returned("today", FALSE)
                    /\ d \in 0..7 => k \in Returned("week", FALSE)
                    /\ d = 8 => /\ k \in Returned("next_week", FALSE)
                                /\ k \notin Returned("week", FALSE)
                    /\ d = 15 => /\ k \notin Returned("week", FALSE)
                                 /\ k \notin Returned("next_week", FALSE)

\* A listed action due eight days from today, returned by next_week
C7_Witness ==
    \E k \in Listed :
        /\ ~IsNull(conn.actions[k].due_date)
        /\ DayOf(Val(conn.actions[k].due_date)) = Today + 8
        /\ k \in Returned("next_week", FALSE)

\* C8: under get_actions_by_timeframe("all", include_archived=False) a listed
\* done action completed within the last 7 days is returned, a done action
\* whose completed_at is older than 7 days is not returned, and an action
\* that is not done is returned whatever its age.
C8_CompletedFadeOut ==
    \A k \in Listed :
        LET a == conn.actions[k]
        IN  /\ a.status # "done" => k \in Returned("all", FALSE)
            /\ (a.status = "done" /\ ~IsNull(a.completed_at)) =>
                    LET age == now - fromisoformat(Val(a.completed_at))
                    IN  /\ age <= 7 * TicksPerDay => k \in Returned("all", FALSE)
                        /\ age > 7 * TicksPerDay => k \notin Returned("all", FALSE)

----------------------------------------------------------------------------
(* The search index against the tables *)

Tables == {"subjects", "agenda_items", "meetings", "actions", "notes"}
ChildTables == Tables \ {"subjects"}

\* The content_type the triggers of a table write
TypeOf(table) ==
    CASE table = "subjects"     -> "subject"
      [] table = "agenda_items" -> "agenda"
      [] table = "meetings"     -> "meeting"
      [] table = "actions"      -> "action"
      [] table = "notes"        -> "note"

\* The index rows of one entity
IndexRows(D, table, k) ==
    {r \in BagToSet(D.unified_fts) :
        r.content_type = TypeOf(table) /\ r.content_id = k}

\* search(query) returns the entity
Hit(D, query, table, k) ==
    \E r \in search(D, query, None) :
        r.content_type = TypeOf(table) /\ r.content_id = k

\* A call of the CRUD interface has returned and none is running
Returned_ok(op) == Idle /\ last.op = op /\ last.ok

\* C2: after update_subject renames subject S, search(new name) matches S
\* and every agenda item, meeting, action and note of S, and search(old
\* name) matches neither S nor any of them when the old name occurs in none
\* of their other text fields.
C2_RenameSearch ==
    [][\A sid \in Stored(conn.subjects) :
          (/\ last'.op = "update_subject" /\ last'.ok /\ last'.id = sid
           /\ sid \in Stored(conn'.subjects)
           /\ conn'.subjects[sid].name # conn.subjects[sid].name)
          =>
          LET old == conn.subjects[sid].name
              new == conn'.subjects[sid].name
              own == conn'.subjects[sid]
          IN  /\ Hit(conn', new, "subjects", sid)
              /\ (Tokens(old) \cap (Tokens(COALESCE(own.code))
                                    \cup Tokens(COALESCE(own.description))) = {})
                    => ~Hit(conn', old, "subjects", sid)
              /\ \A table \in ChildTables :
                    \A k \in WhereSubjectId(conn', table, sid) :
                        /\ Hit(conn', new, table, k)
                        /\ (\A r \in IndexRows(conn', table, k) :
                                Tokens(old) \cap (Tokens(r.title)
                                    \cup Tokens(r.searchable_text)) = {})
                              => ~Hit(conn', old, table, k)
      ]_vars

\* C3: after any sequence of add_*, update_* and delete_* calls, every
\* entity stored in one of the five tables has a row in the search index
\* with its (content_type, content_id).
C3_EveryEntityIndexed ==
    Idle => \A table \in Tables :
                \A k \in Stored(conn[table]) : IndexRows(conn, table, k) # {}

\* C4: every row of the search index names an entity that is stored, in
\* every state the connection or the database file can show, the states
\* inside the subject cascade included.
C4_IndexRowsNameStored ==
    \A D \in {conn, disk} :
        \A r \in BagToSet(D.unified_fts) :
            \E table \in Tables :
                /\ r.content_type = TypeOf(table)
                /\ r.content_id \in Stored(D[table])

\* delete_subject has returned; the action it removed was indexed before
\* the call and is in the index no more
C4_Witness ==
    /\ Returned_ok("delete_subject")
    /\ \E k \in Stored(pre.actions) :
        /\ pre.actions[k].subject_id = last.id
        /\ IndexRows(pre, "actions", k) # {}
        /\ IndexRows(conn, "actions", k) = {}
        /\ k \notin Stored(conn.actions)

----------------------------------------------------------------------------
(* delete_subject *)

\* The ids of a table that belong to subject sid: the subject itself, or
\* the rows whose subject_id is sid
Of(D, table, sid) ==
    IF table = "subjects" THEN {sid} \cap Stored(D.subjects)
    ELSE WhereSubjectId(D, table, sid)

\* C6: after delete_subject(S) the subject S and all agenda items,
\* meetings, actions and notes whose subject_id is S are gone (get_* returns
\* None, the lists by subject are empty), and every row of any other
\* subject is as it was when the call was made.
C6_CascadeDelete ==
    Returned_ok("delete_subject") =>
        LET S == last.id
        IN  /\ IsNull(get_subject(conn, S))
            /\ get_agenda_items(conn, S) = {<<>>}
            /\ get_meetings(conn, S) = {<<>>}
            /\ get_actions(conn, S) = {<<>>}
            /\ get_notes(conn, S) = {<<>>}
            /\ \A k \in Of(pre, "agenda_items", S) : IsNull(get_agenda_item(conn, k))
            /\ \A k \in Of(pre, "meetings", S) : IsNull(get_meeting(conn, k))
            /\ \A k \in Of(pre, "actions", S) : IsNull(get_action(conn, k))
            /\ \A k \in Of(pre, "notes", S) : IsNull(get_note(conn, k))
            /\ \A table \in Tables :
                /\ Stored(conn[table]) = Stored(pre[table]) \ Of(pre, table, S)
                /\ \A k \in Stored(conn[table]) : conn[table][k] = pre[table][k]
            /\ disk = conn

\* delete_subject(S) has returned for a subject that had two actions and
\* an agenda item, a meeting or a note, while the other subject and a row
\* of it were stored
C6_Witness ==
    /\ Returned_ok("delete_subject")
    /\ last.id \in Stored(pre.subjects)
    /\ Cardinality(Of(pre, "actions", last.id)) = 2
    /\ \E table \in ChildTables \ {"actions"} : Of(pre, table, last.id) # {}
    /\ Stored(conn.subjects) # {}
    /\ \E table \in ChildTables : Stored(conn[table]) # {}

\* The statements of delete_subject that have run when the next one is pc
Ran(at) ==
    CASE at = "meetings" -> {"agenda_items"}
      [] at = "actions"  -> {"agenda_items", "meetings"}
      [] at = "notes"    -> {"agenda_items", "meetings", "actions"}
      [] at = "subject"  -> {"agenda_items", "meetings", "actions", "notes"}
      [] at = "commit"   -> Tables
      [] OTHER           -> {}

\* C10, as stated: a crash between two statements of delete_subject, after
\* statements that deleted dependents of the subject, leaves a database
\* file in which those dependents are deleted while the subject row is
\* still there.
C10_CrashLeavesPartialCascade ==
    (/\ last.op = "crash"
     /\ last.at \in {"meetings", "actions", "notes", "subject"}
     /\ last.id \in Stored(pre.subjects)
     /\ \E table \in Ran(last.at) : Of(pre, table, last.id) # {})
    =>
    /\ last.id \in Stored(disk.subjects)
    /\ \A table \in Ran(last.at) : Of(disk, table, last.id) = {}

\* C10, amended: delete_subject removes agenda items, meetings, actions,
\* notes and then the subject row in that order, as the connection that
\* runs it sees; the database file keeps the state of the call until the
\* commit, so a crash between two statements leaves the file, and the
\* restarted application, with every dependent and the subject row.
C10_CrashLosesNothing ==
    /\ pc # "idle" =>
        /\ \A table \in Tables :
            /\ table \in Ran(pc) => Of(conn, table, pc_subject) = {}
            /\ table \notin Ran(pc) => Of(conn, table, pc_subject) = Of(pre, table, pc_subject)
        /\ disk = pre
    /\ last.op = "crash" => disk = pre /\ conn = pre

\* A crash before the DELETE FROM actions of a cascade that had already
\* deleted an agenda item or a meeting of a stored subject
C10_Witness ==
    /\ last.op = "crash"
    /\ last.at = "actions"
    /\ last.id \in Stored(pre.subjects)
    /\ \E table \in Ran("actions") : Of(pre, table, last.id) # {}
    /\ \E table \in Ran("actions") : Of(disk, table, last.id) # {}

----------------------------------------------------------------------------
(* Updates and the index; the order of get_actions *)

UpdateOp(table) ==
    CASE table = "subjects"     -> "update_subject"
      [] table = "agenda_items" -> "update_agenda_item"
      [] table = "meetings"     -> "update_meeting"
      [] table = "actions"      -> "update_action"
      [] table = "notes"        -> "update_note"

\* The title and the searchable text the triggers derive from a row
IndexTitle(table, row) ==
    CASE table = "subjects"     -> row.name
      [] table = "agenda_items" -> row.title
      [] table = "meetings"     -> MeetingTitle(row)
      [] table = "actions"      -> row.title
      [] table = "notes"        -> row.title

IndexText(table, row) ==
    CASE table = "subjects"     -> SubjectText(row)
      [] table = "agenda_items" -> AgendaText(row)
      [] table = "meetings"     -> MeetingText(row)
      [] table = "actions"      -> ActionText(row)
      [] table = "notes"        -> NoteText(row)

IndexWords(table, row) ==
    Tokens(IndexTitle(table, row)) \cup Tokens(IndexText(table, row))

\* C5: after update_X(e) on a stored entity the index row of (type, e.id)
\* carries the title and the searchable text derived from e's new field
\* values: a search made right after the update finds the entity by every
\* word only the new version contains and by no word only the old version
\* contained.
C5_UpdateReflected ==
    [][\A table \in Tables :
          \A k \in Stored(conn[table]) :
            (last'.op = UpdateOp(table) /\ last'.ok /\ last'.id = k)
            =>
            LET old == conn[table][k]
                new == conn'[table][k]
            IN  /\ IndexRows(conn', table, k) # {}
                /\ \A r \in IndexRows(conn', table, k) :
                    /\ r.title = IndexTitle(table, new)
                    /\ r.searchable_text = IndexText(table, new)
                /\ \A w \in IndexWords(table, new) \ IndexWords(table, old) :
                    Hit(conn', w, table, k)
                /\ \A w \in IndexWords(table, old) \ IndexWords(table, new) :
                    ~Hit(conn', w, table, k)
      ]_vars

\* C9: get_actions(subject_id) returns the actions that have a due_date
\* first, in ascending due_date order, followed by the actions whose
\* due_date is None.
C9_DatedFirstThenNull ==
    \A sid \in SubjectIds :
        \A l \in get_actions(conn, sid) :
            \A i, j \in DOMAIN l :
                i < j =>
                    /\ ~(IsNull(l[i].due_date) /\ ~IsNull(l[j].due_date))
                    /\ (~IsNull(l[i].due_date) /\ ~IsNull(l[j].due_date))
                          => Val(l[i].due_date) <= Val(l[j].due_date)

----------------------------------------------------------------------------
(* Failed and empty writes, and lookups of ids that are not stored *)

AddOp(table) ==
    CASE table = "subjects"     -> "add_subject"
      [] table = "agenda_items" -> "add_agenda_item"
      [] table = "meetings"     -> "add_meeting"
      [] table = "actions"      -> "add_action"
      [] table = "notes"        -> "add_note"

DeleteOp(table) ==
    CASE table = "subjects"     -> "delete_subject"
      [] table = "agenda_items" -> "delete_agenda_item"
      [] table = "meetings"     -> "delete_meeting"
      [] table = "actions"      -> "delete_action"
      [] table = "notes"        -> "delete_note"

\* C11: add_X(e) with an id already stored in X's table fails with the
\* duplicate-key error and every table row and every index row, in the
\* connection and in the file, is as it was before the call.
C11_DuplicateAddFails ==
    [][\A table \in Tables :
          (last'.op = AddOp(table) /\ last'.id \in Stored(conn[table]))
          => (~last'.ok /\ conn' = conn /\ disk' = disk)
      ]_vars

\* A duplicate add_action has failed on an action that has its index row
C11_Witness ==
    /\ last.op = "add_action" /\ ~last.ok
    /\ last.id \in Stored(conn.actions)
    /\ IndexRows(conn, "actions", last.id) # {}
    /\ IndexRows(conn, "subjects", conn.actions[last.id].subject_id) # {}

Get(D, table, id) ==
    CASE table = "subjects"     -> get_subject(D, id)
      [] table = "agenda_items" -> get_agenda_item(D, id)
      [] table = "meetings"     -> get_meeting(D, id)
      [] table = "actions"      -> get_action(D, id)
      [] table = "notes"        -> get_note(D, id)

LookupIds == SubjectIds \cup AgendaIds \cup MeetingIds \cup ActionIds \cup NoteIds \cup {"zz"}

\* C14: get_subject, get_agenda_item, get_meeting, get_action and get_note
\* return None for every id that is not stored in their table, also for the
\* id a delete_X has just removed.
C14_GetAbsentIsNone ==
    \A table \in Tables :
        /\ \A id \in LookupIds \ Stored(conn[table]) : IsNull(Get(conn, table, id))
        /\ (Idle /\ last.op = DeleteOp(table) /\ last.ok)
              => IsNull(Get(conn, table, last.id))

\* delete_action has returned and left no action, while other rows are stored
C14_Witness ==
    /\ Idle /\ last.op = "delete_action" /\ last.ok
    /\ conn.subjects # EmptyTable
    /\ conn.actions = EmptyTable
    /\ conn.notes # EmptyTable

----------------------------------------------------------------------------
(* Reading back what was written *)

UpdateCols(table) ==
    CASE table = "subjects"     -> SubjectUpdateCols
      [] table = "agenda_items" -> AgendaItemUpdateCols
      [] table = "meetings"     -> MeetingUpdateCols
      [] table = "actions"      -> ActionUpdateCols
      [] table = "notes"        -> NoteUpdateCols

\* The step is the call update_X(e)
UpdateCall(table, e) ==
    CASE table = "subjects"     -> update_subject(e)
      [] table = "agenda_items" -> update_agenda_item(e)
      [] table = "meetings"     -> update_meeting(e)
      [] table = "actions"      -> update_action(e)
      [] table = "notes"        -> update_note(e)

TextEntities(table) ==
    CASE table = "subjects"     -> TextSubjects
      [] table = "agenda_items" -> TextAgendaItems
      [] table = "meetings"     -> TextMeetings
      [] table = "actions"      -> TextActions
      [] table = "notes"        -> TextNotes

\* got.f == e.f in Python, for the entity got a get_X returned: the attribute
\* exists and compares equal
FieldEq(got, e, f) ==
    /\ f \in DOMAIN got
    /\ got[f] = e[f]

\* C13: after update_X(e) for a stored id, get_X(e.id) returns an entity
\* whose every mutable field (every field the UPDATE sets) equals e's, and
\* no other entity's row is created, changed or removed.
C13_UpdateThenGet ==
    [][\A table \in Tables :
          \A e \in TextEntities(table) :
            (e.id \in Stored(conn[table]) /\ UpdateCall(table, e))
            =>
            LET got == Get(conn', table, e.id)
            IN  /\ ~IsNull(got)
                /\ \A f \in UpdateCols(table) : FieldEq(Val(got), e, f)
                /\ \A t \in Tables :
                     \A k \in Stored(conn[t]) \cup Stored(conn'[t]) :
                        (t # table \/ k # e.id)
                        => /\ k \in Stored(conn[t]) \cap Stored(conn'[t])
                           /\ conn'[t][k] = conn[t][k]
      ]_vars

\* No tag of the list contains a comma
NoComma(tags) ==
    \A i \in DOMAIN PyItems(tags) :
        \A j \in DOMAIN PyItems(tags)[i] : PyItems(tags)[i][j] # COMMA

\* C15: add_action(e) and add_note(e) followed by get_X(e.id) yield e's list
\* of tags when no tag contains a comma, and add_meeting(e) followed by
\* get_meeting(e.id) yields e's attendees in the same order.
C15_ListFieldsRoundTrip ==
    [][/\ \A e \in TextActions :
            (e.id \notin Stored(conn.actions) /\ NoComma(e.tags) /\ add_action(e))
            => LET got == get_action(conn', e.id)
               IN  ~IsNull(got) /\ Val(got).tags = e.tags
       /\ \A e \in TextNotes :
            (e.id \notin Stored(conn.notes) /\ NoComma(e.tags) /\ add_note(e))
            => LET got == get_note(conn', e.id)
               IN  ~IsNull(got) /\ Val(got).tags = e.tags
       /\ \A e \in TextMeetings :
            (e.id \notin Stored(conn.meetings) /\ add_meeting(e))
            => LET got == get_meeting(conn', e.id)
               IN  ~IsNull(got) /\ Val(got).attendees = e.attendees
      ]_vars

----------------------------------------------------------------------------
(* SpecDict: a caller holds a model object, or a flat dict, and calls      *)
(* to_dict and from_dict on it.  The objects cover every combination of    *)
(* optional fields present or absent; the dicts are those of an action or  *)
(* a note whose tags entry is missing, null, a comma-joined text or a list. *)

Classes == {"Subject", "AgendaItem", "Meeting", "Action", "Note"}

to_dict(cls, self) ==
    CASE cls = "Subject"    -> Subject_to_dict(self)
      [] cls = "AgendaItem" -> AgendaItem_to_dict(self)
      [] cls = "Meeting"    -> Meeting_to_dict(self)
      [] cls = "Action"     -> Action_to_dict(self)
      [] cls = "Note"       -> Note_to_dict(self)

from_dict(cls, data) ==
    CASE cls = "Subject"    -> Subject_from_dict(data)
      [] cls = "AgendaItem" -> AgendaItem_from_dict(data)
      [] cls = "Meeting"    -> Meeting_from_dict(data)
      [] cls = "Action"     -> Action_from_dict(data)
      [] cls = "Note"       -> Note_from_dict(data)

OptText == {None, Some(<<"board">>)}
OptTime == {None, Some(Now0 + 1)}
TagLists == {PyList(<<>>), PyList(<< <<"x">>, <<"y">> >>)}

Objects(cls) ==
    CASE cls = "Subject" ->
            [id : {"s1"}, name : {<<"alpha">>},
             type : {SubjectType("project"), SubjectType("board")},
             code : OptText, description : OptText,
             created_at : {Now0}, last_reviewed_at : {Now0 + 1}]
      [] cls = "AgendaItem" ->
            [id : {"g1"}, subject_id : {"s1"}, title : {<<"topic">>},
             description : OptText, priority : {5},
             status : {AgendaStatus("active")}, created_at : {Now0},
             discussed_at : OptTime, is_recurring : {0, 1},
             recurrence_pattern : {None, Some(RecurrencePattern("weekly"))}]
      [] cls = "Meeting" ->
            [id : {"m1"}, subject_id : {"s1"}, date : {Now0, Now0 + 1},
             attendees : {PyList(<<>>), PyList(<< <<"ann">>, <<"bob">> >>)},
             content : {<<"minutes">>}, created_at : {Now0}, updated_at : {Now0 + 1}]
      [] cls = "Action" ->
            [id : {"a1"}, subject_id : {"s1"}, title : {<<"fix">>},
             description : OptText, status : {ActionStatus("todo"), ActionStatus("done")},
             due_date : OptTime, created_at : {Now0}, completed_at : OptTime,
             archived_at : OptTime, meeting_id : {None, Some("m1")},
             agenda_item_id : {None, Some("g1")}, tags : TagLists]
      [] cls = "Note" ->
            [id : {"n1"}, subject_id : {"s1"}, title : {<<"memo">>},
             content : {<<"body">>}, tags : TagLists,
             created_at : {Now0}, updated_at : {Now0 + 1}]

\* "tag1, tag2", " doc ,, ref", "" and "x"
TagTexts ==
    {<<"tag1", COMMA, SP, "tag2">>, <<SP, "doc", SP, COMMA, COMMA, SP, "ref">>,
     <<>>, <<"x">>}

\* The dict of an object with its tags entry replaced or removed
TagDicts(cls) ==
    IF cls \notin {"Action", "Note"} THEN {}
    ELSE LET d == to_dict(cls, CHOOSE e \in Objects(cls) : TRUE)
         IN  {[k \in DOMAIN d \ {"tags"} |-> d[k]]}
             \cup {[d EXCEPT !.tags = v] :
                     v \in {PyNone} \cup {PyStr(t) : t \in TagTexts} \cup TagLists}

InitDict ==
    /\ conn = EmptyDb
    /\ disk = EmptyDb
    /\ pc = "idle"
    /\ pc_subject = NoSubject
    /\ pre = EmptyDb
    /\ now = Now0
    /\ utc_offset = 0
    /\ schema = CurrentSchema
    /\ last = [op |-> "init", id |-> "", ok |-> TRUE, at |-> "idle"]
    /\ \E cls \in Classes :
          \/ \E e \in Objects(cls) :
                held = [at |-> "object", cls |-> cls, given |-> "object",
                        orig |-> e, value |-> e]
          \/ \E d \in TagDicts(cls) :
                held = [at |-> "dict", cls |-> cls, given |-> "dict",
                        orig |-> d, value |-> d]

\* data = obj.to_dict()
call_to_dict ==
    /\ held.at = "object"
    /\ held' = [held EXCEPT !.at = "dict", !.value = to_dict(held.cls, held.value)]
    /\ UNCHANGED <<conn, disk, pc, pc_subject, pre, now, utc_offset, last, schema>>

\* obj = cls.from_dict(data)
call_from_dict ==
    /\ held.at = "dict"
    /\ held' = [held EXCEPT !.at = "restored", !.value = from_dict(held.cls, held.value)]
    /\ UNCHANGED <<conn, disk, pc, pc_subject, pre, now, utc_offset, last, schema>>

NextDict ==
    \/ call_to_dict
    \/ call_from_dict

SpecDict == InitDict /\ [][NextDict]_vars

RECURSIVE SplitComma(_)
SplitComma(t) ==
    IF \A i \in DOMAIN t : t[i] # COMMA THEN <<t>>
    ELSE LET i == CHOOSE i \in DOMAIN t :
                    t[i] = COMMA /\ \A j \in 1..(i - 1) : t[j] # COMMA
         IN  <<SubSeq(t, 1, i - 1)>> \o SplitComma(SubSeq(t, i + 1, Len(t)))

\* A text without its leading and trailing blanks
RECURSIVE Strip(_)
Strip(t) ==
    IF t = <<>> THEN t
    ELSE IF Head(t) = SP THEN Strip(Tail(t))
    ELSE IF t[Len(t)] = SP THEN Strip(SubSeq(t, 1, Len(t) - 1))
    ELSE t

\* The trimmed, non-empty components of a comma-joined text, in order
TrimmedComponents(t) ==
    SelectSeq([i \in DOMAIN SplitComma(t) |-> Strip(SplitComma(t)[i])],
              LAMBDA c : c # <<>>)

\* C17: Action.from_dict and Note.from_dict normalise tags to a list: a
\* missing or null tags entry gives the empty list, and a comma-joined text
\* gives the list of its trimmed, non-empty components in order.
C17_TagsNormalised ==
    (held.at = "restored" /\ held.given = "dict")
    => LET data == held.orig
       IN  CASE "tags" \notin DOMAIN data -> held.value.tags = PyList(<<>>)
             [] "tags" \in DOMAIN data /\ data.tags = PyNone
                    -> held.value.tags = PyList(<<>>)
             [] "tags" \in DOMAIN data /\ data.tags[1] = "str"
                    -> held.value.tags = PyList(TrimmedComponents(PyItems(data.tags)))
             [] OTHER -> TRUE

----------------------------------------------------------------------------
(* SpecSearch: searches with well-formed, blank and malformed queries, with *)
(* and without a content_types filter, on a small index that grows and on  *)
(* one that holds more matching rows than the LIMIT of search.             *)

SearchSubjects == {NewSubject("s1", <<"alpha", SP, "beta">>, None)}
SearchActions == {NewAction("a1", "s1", <<"fix">>, << <<"x">> >>, "todo", None, None, None)}
SearchNotes == {NewNote("n1", "s1", <<"memo", SP, "fix">>, <<"body">>)}

BulkCount == SearchLimit + 1
BulkNotes ==
    {NewNote("b" \o ToString(i), "s1", <<"bulk">>, <<"body">>) : i \in 1..BulkCount}

\* The database after add_note of every note of a set
RECURSIVE AddNotes(_, _)
AddNotes(D, notes) ==
    IF notes = {} THEN D
    ELSE LET e == CHOOSE x \in notes : TRUE
         IN  IF UniqueConstraintFailed(D, "notes", NoteRow(e))
             THEN AddNotes(D, notes \ {e})
             ELSE AddNotes(SqlInsert(D, "notes", NoteRow(e)), notes \ {e})

BulkDb ==
    AddNotes(SqlInsert(EmptyDb, "subjects",
                       SubjectRow(CHOOSE e \in SearchSubjects : TRUE)),
             BulkNotes)

Queries ==
    {<<>>, <<SP, SP>>,
     <<QUOTE, "fix">>, <<"fix", QUOTE>>, <<"fix", COMMA, SP, "memo">>,
     <<"fix">>, <<"alpha">>, <<"bulk", SP, "alpha">>,
     <<QUOTE, "memo", SP, "fix", QUOTE>>, <<QUOTE, "fix", SP, "memo", QUOTE>>}

TypeFilters == {None, Some({}), Some({"note"}), Some({"subject", "action"})}

InitSearch ==
    /\ conn \in {EmptyDb, BulkDb}
    /\ disk = conn
    /\ pc = "idle"
    /\ pc_subject = NoSubject
    /\ pre = EmptyDb
    /\ now = Now0
    /\ utc_offset = 0
    /\ held = NoObject
    /\ schema = CurrentSchema
    /\ last = [op |-> "init", id |-> "", ok |-> TRUE, at |-> "idle"]

\* results = db.search(query, content_types): one SELECT, no write, no commit
call_search(query, content_types) ==
    /\ Idle
    /\ held' = [at            |-> "search",
                query         |-> query,
                content_types |-> content_types,
                result        |-> IF IsNull(search_raises(query))
                                  THEN search(conn, query, content_types)
                                  ELSE {}]
    /\ last' = [op |-> "search", id |-> "", ok |-> IsNull(search_raises(query)),
                at |-> "idle"]
    /\ UNCHANGED <<conn, disk, pc, pc_subject, pre, now, utc_offset, schema>>

NextSearch ==
    \/ \E e \in SearchSubjects : add_subject(e)
    \/ \E e \in SearchActions : add_action(e)
    \/ \E e \in SearchNotes : add_note(e)
    \/ \E q \in Queries, T \in TypeFilters : call_search(q, T)

SpecSearch == InitSearch /\ [][NextSearch]_vars

\* C18: search does not raise for a bad query: for an empty or blank query
\* and for a query fts5 cannot parse (an unbalanced quote, a stray comma) it
\* returns the empty list, and the tables and the index are as before.
C18_BadQueryReturnsEmpty ==
    [][(last'.op = "search"
          /\ (IsBlank(held'.query) \/ FtsSyntaxError(held'.query)))
       => (last'.ok /\ held'.result = {} /\ conn' = conn /\ disk' = disk)
      ]_vars

\* A query with an unbalanced quote around a word the index holds has been
\* searched
C18_Witness ==
    /\ last.op = "search" /\ last.ok
    /\ held.query = <<QUOTE, "fix">>
    /\ held.result = {}
    /\ search(conn, <<"fix">>, None) # {}

\* C19: for a well-formed query, search with a non-empty content_types T
\* returns only index rows whose content_type is in T, and all matching
\* rows of those types when there are at most 50, else 50 of them; with
\* content_types omitted the matching rows of all five types are eligible.
C19_TypeFilterAndCap ==
    (last.op = "search" /\ ~IsBlank(held.query) /\ ~FtsSyntaxError(held.query))
    => LET T == held.content_types
           all == {r \in BagToSet(conn.unified_fts) : Match(r, held.query)}
           eligible == IF IsNull(T) \/ Val(T) = {} THEN all
                       ELSE {r \in all : r.content_type \in Val(T)}
       IN  /\ held.result \subseteq eligible
           /\ Cardinality(eligible) <= SearchLimit => held.result = eligible
           /\ Cardinality(eligible) > SearchLimit
                => Cardinality(held.result) = SearchLimit

\* A search filtered to notes has hit the cap while a subject row matched
\* the query too
C19_Witness ==
    /\ last.op = "search"
    /\ held.query = <<"alpha">>
    /\ held.content_types = Some({"note"})
    /\ Cardinality(held.result) = SearchLimit
    /\ \E r \in search(conn, held.query, Some({"subject"})) : r \notin held.result
    /\ \A r \in held.result : r.content_type = "note"

----------------------------------------------------------------------------
(* SpecUI: the operations of the user interface that write actions: the    *)
(* new-action dialog, the status toggle of the dashboard and the save of   *)
(* the action dialog, from an empty database.                              *)

\* Action(...) as the dialogs and database.py use it: the dataclass with the
\* note_id attribute; fields that are not passed take their defaults
Action(id, subject_id, title, description, status, due_date, meeting_id, note_id, tags, created_at) ==
    [id             |-> id,
     subject_id     |-> subject_id,
     title          |-> title,
     description    |-> description,
     status         |-> status,
     due_date       |-> due_date,
     created_at     |-> created_at,
     completed_at   |-> None,
     archived_at    |-> None,
     meeting_id     |-> meeting_id,
     note_id        |-> note_id,
     agenda_item_id |-> None,
     tags           |-> tags]

\* from_dict of that dataclass: the fields of Action.from_dict, note_id, and
\* tags as a list
Action_from_flat_record(data) ==
    LET a == Action_from_dict(data)
    IN  [f \in DOMAIN a \cup {"note_id"} |->
            IF f = "note_id" THEN data.note_id
            ELSE IF f = "tags"
                 THEN (IF ~Truthy(a.tags) THEN PyList(<<>>)
                       ELSE IF a.tags[1] = "str"
                            THEN PyList(TrimmedComponents(PyItems(a.tags)))
                            ELSE a.tags)
            ELSE a[f]]

\* self.db.get_action(action_id) with that dataclass
get_action_record(D, action_id) ==
    LET row == FetchOne(D, "actions", action_id)
    IN  IF IsNull(row) THEN None ELSE Some(Action_from_flat_record(dict(Val(row))))

UIActionIds == {"a1", "a2"}
UIDueDates == {None, Some(Now0 + 1)}
UITags == {<<>>, << <<"x">> >>}

\* The options of the Select widgets
NewActionStatuses == {"todo", "in_progress"}
ViewActionStatuses == {"todo", "in_progress", "done"}

\* NewActionDialog.action_save: the Action the dialog is dismissed with
NewActionDialog_action_save(id, subject_id, title, due_date, status, tags) ==
    Action(id, subject_id, title, None, ActionStatus(status), due_date, None, None,
           PyList(tags), now)

\* MainDashboard.action_add_action / SubjectDetailScreen._add_action
action_add_action(id, title, due_date, status, tags) ==
    /\ Idle
    /\ \E subject_id \in Stored(conn.subjects) :
          Add("add_action", "actions",
              ActionRow(NewActionDialog_action_save(id, subject_id, title, due_date,
                                                    status, tags)))

Toggled_KeepsCompletedAt(action, t) ==
    IF action.status = ActionStatus("todo")
    THEN [action EXCEPT !.status = ActionStatus("in_progress")]
    ELSE IF action.status = ActionStatus("in_progress")
         THEN [action EXCEPT !.status = ActionStatus("done"), !.completed_at = Some(t)]
         ELSE [action EXCEPT !.status = ActionStatus("todo")]

\* TODO -> IN_PROGRESS -> DONE -> TODO, at time t
Toggled(action, t) ==
    IF action.status = ActionStatus("todo")
    THEN [action EXCEPT !.status = ActionStatus("in_progress")]
    ELSE IF action.status = ActionStatus("in_progress")
         THEN [action EXCEPT !.status = ActionStatus("done"), !.completed_at = Some(t)]
         ELSE [action EXCEPT !.status = ActionStatus("todo"), !.completed_at = None]

\* MainDashboard.action_toggle_action_status on a row of the actions table
action_toggle_action_status(action_id) ==
    /\ Idle
    /\ ~IsNull(get_action_record(conn, action_id))
    /\ Update("update_action", "actions", ActionUpdateCols,
              ActionRow(Toggled(Val(get_action_record(conn, action_id)), now)))

\* ViewActionDialog.action_save, with the text area left empty: the Action
\* the dialog is dismissed with
ViewActionDialog_action_save(action, title, due_date, status, tags, t) ==
    LET old_status == action.status
        new_status == ActionStatus(status)
        DONE == ActionStatus("done")
    IN  [action EXCEPT
            !.title = title,
            !.due_date = due_date,
            !.status = new_status,
            !.tags = PyList(tags),
            !.description = None,
            !.completed_at =
                IF old_status # DONE /\ new_status = DONE THEN Some(t)
                ELSE IF old_status = DONE /\ new_status # DONE THEN None
                ELSE @]

\* SubjectDetailScreen._edit_action / on_data_table_row_selected
edit_action(action_id, title, due_date, status, tags) ==
    /\ Idle
    /\ ~IsNull(get_action_record(conn, action_id))
    /\ Update("update_action", "actions", ActionUpdateCols,
              ActionRow(ViewActionDialog_action_save(
                            Val(get_action_record(conn, action_id)),
                            title, due_date, status, tags, now)))

NextUI ==
    \/ \E e \in SearchSubjects : add_subject(e)
    \/ \E id \in UIActionIds, due_date \in UIDueDates, status \in NewActionStatuses,
          tags \in UITags : action_add_action(id, <<"fix">>, due_date, status, tags)
    \/ \E id \in UIActionIds : action_toggle_action_status(id)
    \/ \E id \in UIActionIds, due_date \in UIDueDates, status \in ViewActionStatuses,
          tags \in UITags : edit_action(id, <<"repair">>, due_date, status, tags)

SpecUI == Init /\ [][NextUI]_vars

-----------------------------------------------------------------------------
(* The agenda dialogs of widgets/dialogs.py and their callers in           *)
(* screens/subjects.py                                                     *)

UIAgendaIds == {"g1", "g2"}
UIAgendaTitles == {EMPTY, <<SP>>, <<"plan">>}
UIAgendaTexts == {EMPTY, <<"notes">>}
UIAgendaPriorities == {0, 3, 11}
UIAgendaStatuses == {"active", "discussed", "archived"}

\* NewAgendaDialog.action_save: the AgendaItem the dialog is dismissed with,
\* None when the title is blank (the dialog stays open)
NewAgendaDialog_action_save(id, subject_id, title, priority, text, t) ==
    IF Strip(title) = EMPTY THEN None
    ELSE Some([id                 |-> id,
               subject_id         |-> subject_id,
               title              |-> Strip(title),
               description        |-> IF Strip(text) = EMPTY THEN None
                                      ELSE Some(Strip(text)),
               priority           |-> priority,
               status             |-> AgendaStatus("active"),
               created_at         |-> t,
               discussed_at       |-> None,
               is_recurring       |-> 0,
               recurrence_pattern |-> None])

\* SubjectDetailScreen._add_agenda
add_agenda(id, title, priority, text) ==
    /\ Idle
    /\ \E subject_id \in Stored(conn.subjects) :
          LET result == NewAgendaDialog_action_save(id, subject_id, title, priority,
                                                    text, now)
          IN  /\ ~IsNull(result)
              /\ Add("add_agenda_item", "agenda_items", AgendaItemRow(Val(result)))

ViewAgendaDialog_action_save_StampsEverySave(agenda_item, title, priority, status, text, t) ==
    IF Strip(title) = EMPTY \/ priority < 1 \/ priority > 10 THEN None
    ELSE Some([agenda_item EXCEPT
                  !.title = Strip(title),
                  !.priority = priority,
                  !.status = AgendaStatus(status),
                  !.description = IF Strip(text) = EMPTY THEN None ELSE Some(text),
                  !.discussed_at =
                      IF AgendaStatus(status) = AgendaStatus("discussed")
                      THEN Some(t) ELSE @])

\* ViewAgendaDialog.action_save at time t: the AgendaItem the dialog is
\* dismissed with, None when the title is blank or the priority is not in
\* 1..10 (the dialog stays open)
ViewAgendaDialog_action_save(agenda_item, title, priority, status, text, t) ==
    LET old_status == agenda_item.status
        new_status == AgendaStatus(status)
        DISCUSSED == AgendaStatus("discussed")
    IN  IF Strip(title) = EMPTY \/ priority < 1 \/ priority > 10 THEN None
        ELSE Some([agenda_item EXCEPT
                      !.title = Strip(title),
                      !.priority = priority,
                      !.status = new_status,
                      !.description = IF Strip(text) = EMPTY THEN None ELSE Some(text),
                      !.discussed_at =
                          IF old_status # DISCUSSED /\ new_status = DISCUSSED
                          THEN Some(t) ELSE @])

\* SubjectDetailScreen._edit_agenda / on_data_table_row_selected
edit_agenda(agenda_id, title, priority, status, text) ==
    /\ Idle
    /\ ~IsNull(get_agenda_item(conn, agenda_id))
    /\ LET result == ViewAgendaDialog_action_save(
                         Val(get_agenda_item(conn, agenda_id)),
                         title, priority, status, text, now)
       IN  /\ ~IsNull(result)
           /\ Update("update_agenda_item", "agenda_items", AgendaItemUpdateCols,
                     AgendaItemRow(Val(result)))

NextAgenda ==
    \/ \E e \in SearchSubjects : add_subject(e)
    \/ \E id \in UIAgendaIds, title \in UIAgendaTitles, text \in UIAgendaTexts :
          add_agenda(id, title, 5, text)
    \/ \E id \in UIAgendaIds, title \in UIAgendaTitles, priority \in UIAgendaPriorities,
          status \in UIAgendaStatuses, text \in UIAgendaTexts :
          edit_agenda(id, title, priority, status, text)
    \/ Tick

SpecAgenda == Init /\ [][NextAgenda]_vars

\* C21: a save of the agenda dialog that changes the status of a stored
\* agenda item from a value other than discussed to discussed stores the
\* current time as its discussed_at, and every other save (status unchanged,
\* or changed to a value other than discussed) leaves the stored
\* discussed_at as it was.
C21_DiscussedAtOnTransition ==
    [][\A k \in Stored(conn.agenda_items) :
          (last'.op = "update_agenda_item" /\ last'.id = k /\ now' = now)
          => conn'.agenda_items[k].discussed_at =
                IF /\ conn.agenda_items[k].status # "discussed"
                   /\ conn'.agenda_items[k].status = "discussed"
                THEN IsoColumn(Some(now))
                ELSE conn.agenda_items[k].discussed_at]_vars

\* An item discussed earlier was saved again as discussed at a later time,
\* and kept the earlier discussed_at
C21_Witness ==
    /\ last.op = "update_agenda_item"
    /\ now = MaxNow
    /\ \E k \in Stored(conn.agenda_items) :
          /\ last.id = k
          /\ conn.agenda_items[k].status = "discussed"
          /\ conn.agenda_items[k].discussed_at = IsoColumn(Some(Now0))

-----------------------------------------------------------------------------
(* The rows of get_actions_by_timeframe: their order and their subject_name *)

JoinSubjects ==
    {NewSubject("s1", <<"alpha">>, None), NewSubject("s1", <<"gamma">>, None),
     NewSubject("s2", <<"beta">>, None)}

\* Actions a1 and a3 of subject s1, a2 of subject s2
JoinActions ==
    {NewAction(id, IF id = "a2" THEN "s2" ELSE "s1", <<"fix">>, <<>>, "todo", due,
               None, None) :
        id \in OrderActionIds, due \in OrderDueDates}

NextJoin ==
    \/ \E e \in JoinSubjects : add_subject(e)
    \/ \E e \in JoinSubjects : update_subject(e)
    \/ \E e \in JoinActions : add_action(e)
    \/ \E e \in JoinActions : update_action(e)
    \/ \E id \in OrderActionIds : delete_action(id)

SpecJoin == Init /\ [][NextJoin]_vars

\* C22: in every list get_actions_by_timeframe returns, for every timeframe
\* with and without include_archived, the rows with a due_date come first in
\* ascending due_date order and the rows without one come last, and every
\* row carries as subject_name the name now stored for the subject its
\* subject_id names.
C22_TimeframeSortedAndNamed ==
    \A timeframe \in Timeframes, include_archived \in BOOLEAN :
        \A l \in get_actions_by_timeframe(conn, timeframe, include_archived,
                                          now, utc_offset) :
            /\ \A i, j \in DOMAIN l :
                  i < j =>
                     /\ ~(IsNull(l[i].row.due_date) /\ ~IsNull(l[j].row.due_date))
                     /\ (~IsNull(l[i].row.due_date) /\ ~IsNull(l[j].row.due_date))
                           => StrLessEq(Val(l[i].row.due_date), Val(l[j].row.due_date))
            /\ \A i \in DOMAIN l :
                  /\ l[i].row.subject_id \in Stored(conn.subjects)
                  /\ l[i].subject_name = conn.subjects[l[i].row.subject_id].name

\* After a rename of subject s1, the all timeframe lists three actions of
\* two subjects: two with different due dates and one without
C22_Witness ==
    /\ last.op = "update_subject" /\ last.ok
    /\ "s1" \in Stored(conn.subjects)
    /\ conn.subjects["s1"].name = <<"gamma">>
    /\ \E l \in get_actions_by_timeframe(conn, "all", FALSE, now, utc_offset) :
          /\ Len(l) = 3
          /\ ~IsNull(l[1].row.due_date) /\ ~IsNull(l[2].row.due_date)
          /\ l[1].row.due_date # l[2].row.due_date
          /\ IsNull(l[3].row.due_date)
          /\ \E i, j \in DOMAIN l : l[i].subject_name # l[j].subject_name

-----------------------------------------------------------------------------
(* Actions without a due date in the timeframes *)

DatedTimeframes == {"today", "week", "next_week"}

\* C23: the today, week and next_week timeframes, with or without
\* include_archived, never return an action whose due_date is null.
C23_NullDueOnlyInAll ==
    \A timeframe \in DatedTimeframes, include_archived \in BOOLEAN :
        \A r \in TimeframeRows(conn, timeframe, include_archived, now, utc_offset) :
            ~IsNull(r.row.due_date)

\* An action without a due date is stored, and the all timeframe returns it
C23_Witness ==
    /\ \E k \in Stored(conn.actions) : IsNull(conn.actions[k].due_date)
    /\ \E r \in TimeframeRows(conn, "all", FALSE, now, utc_offset) :
          IsNull(r.row.due_date)

-----------------------------------------------------------------------------
(* Reverse lookups: the actions created from a meeting or from a note *)

get_actions_by_meeting_WithArchived(D, meeting_id) ==
    {[i \in DOMAIN l |-> Action_from_dict(dict(l[i]))] :
        l \in SortedLists({D.actions[k] : k \in {k \in Stored(D.actions) :
                              D.actions[k].meeting_id = Some(meeting_id)}},
                          "created_at DESC")}

\* SELECT * FROM actions WHERE meeting_id = ? AND archived_at IS NULL
\* ORDER BY created_at DESC
get_actions_by_meeting(D, meeting_id) ==
    {[i \in DOMAIN l |-> Action_from_dict(dict(l[i]))] :
        l \in SortedLists({D.actions[k] : k \in {k \in Stored(D.actions) :
                              /\ D.actions[k].meeting_id = Some(meeting_id)
                              /\ IsNull(D.actions[k].archived_at)}},
                          "created_at DESC")}

\* SELECT * FROM actions WHERE note_id = ? AND archived_at IS NULL
\* ORDER BY created_at DESC
get_actions_by_note(D, note_id) ==
    {[i \in DOMAIN l |-> Action_from_dict(dict(l[i]))] :
        l \in SortedLists({D.actions[k] : k \in {k \in Stored(D.actions) :
                              /\ D.actions[k].note_id = Some(note_id)
                              /\ IsNull(D.actions[k].archived_at)}},
                          "created_at DESC")}

LinkActionIds == {"a1", "a2"}
LinkMeetingIds == {"m1", "m2"}
LinkNoteIds == {"n1", "n2"}

LinkMeetings == {NewMeeting("m1", "s1", <<<<"ann">>>>, <<"minutes">>)}
LinkNotes == {NewNote("n1", "s1", <<"memo">>, <<"body">>)}

\* Actions from a meeting, from a note, from both or from neither, archived
\* or not; a1 is created now, a2 now or a tick later
LinkActions ==
    {e \in {[NewAction(id, "s1", <<"fix">>, <<>>, "todo", None, None, archived_at)
                EXCEPT !.meeting_id = meeting_id, !.note_id = note_id,
                       !.created_at = created_at] :
               id \in LinkActionIds, archived_at \in ArchivedAts,
               meeting_id \in {None, Some("m1")},
               note_id \in {None, Some("n1")},
               created_at \in {Now0, Now0 + 1}} :
        e.id = "a2" \/ e.created_at = Now0}

NextLinks ==
    \/ \E e \in TFSubjects : add_subject(e)
    \/ \E e \in LinkMeetings : add_meeting(e)
    \/ \E e \in LinkNotes : add_note(e)
    \/ \E e \in LinkActions : add_action(e)
    \/ \E e \in LinkActions : update_action(e)
    \/ \E id \in LinkActionIds : delete_action(id)
    \/ \E id \in LinkMeetingIds : delete_meeting(id)
    \/ \E id \in LinkNoteIds : delete_note(id)

SpecLinks == Init /\ [][NextLinks]_vars

\* The ids of the stored, non-archived actions with a given value in a
\* link column
LinkedTo(D, col, id) ==
    {k \in Stored(D.actions) :
        D.actions[k][col] = Some(id) /\ IsNull(D.actions[k].archived_at)}

\* A list holds exactly the actions of a set of ids, each once, newest
\* created first
ExactlyNewestFirst(l, ids) ==
    /\ {l[i].id : i \in DOMAIN l} = ids
    /\ Len(l) = Cardinality(ids)
    /\ \A i, j \in DOMAIN l : i < j => l[i].created_at >= l[j].created_at

\* C24: get_actions_by_meeting(m) returns exactly the stored actions whose
\* meeting_id is m and whose archived_at is null, newest created first, and
\* get_actions_by_note(n) the same for note_id.
C24_ReverseLookups ==
    /\ \A m \in LinkMeetingIds :
          /\ get_actions_by_meeting(conn, m) # {}
          /\ \A l \in get_actions_by_meeting(conn, m) :
                ExactlyNewestFirst(l, LinkedTo(conn, "meeting_id", m))
    /\ \A n \in LinkNoteIds :
          /\ get_actions_by_note(conn, n) # {}
          /\ \A l \in get_actions_by_note(conn, n) :
                ExactlyNewestFirst(l, LinkedTo(conn, "note_id", n))

\* Two actions of meeting m1 created at different times are listed, the
\* later one first, and only one of them is listed for the note n1
C24_Witness ==
    /\ \E l \in get_actions_by_meeting(conn, "m1") :
          Len(l) = 2 /\ l[1].created_at > l[2].created_at
    /\ \E l \in get_actions_by_note(conn, "n1") : Len(l) = 1

\* The index rows of the actions, each with its number of copies
ActionIndexRows(D) ==
    [r \in {r \in BagToSet(D.unified_fts) : r.content_type = "action"} |->
        D.unified_fts[r]]

\* C29: a delete_meeting(m) of a stored meeting and a delete_note(n) of a
\* stored note remove the meeting or note and leave the actions table and
\* the index rows of the actions as they were, and get_actions_by_meeting(m)
\* and get_actions_by_note(n) return after the call what they returned
\* before it.
C29_DeleteLeavesActions ==
    [][/\ (last'.op = "delete_meeting" /\ last'.id \in Stored(conn.meetings))
          => /\ last'.id \notin Stored(conn'.meetings)
             /\ conn'.actions = conn.actions
             /\ ActionIndexRows(conn') = ActionIndexRows(conn)
             /\ get_actions_by_meeting(conn', last'.id)
                   = get_actions_by_meeting(conn, last'.id)
       /\ (last'.op = "delete_note" /\ last'.id \in Stored(conn.notes))
          => /\ last'.id \notin Stored(conn'.notes)
             /\ conn'.actions = conn.actions
             /\ ActionIndexRows(conn') = ActionIndexRows(conn)
             /\ get_actions_by_note(conn', last'.id)
                   = get_actions_by_note(conn, last'.id)]_vars

\* The meeting m1 has just been deleted and is gone, while two actions still
\* carry its id and are listed for it
C29_Witness ==
    /\ last.op = "delete_meeting" /\ last.id = "m1"
    /\ "m1" \notin Stored(conn.meetings)
    /\ \A k \in LinkActionIds :
          k \in Stored(conn.actions) /\ conn.actions[k].meeting_id = Some("m1")
    /\ \E l \in get_actions_by_meeting(conn, "m1") : Len(l) = 2

-----------------------------------------------------------------------------
(* Commits *)

\* C25: whenever no Database call is running, the database file holds
\* exactly what the connection sees: every add, update and delete that
\* returned, and every delete_subject that returned, has committed its
\* changes, so a crash between two calls loses nothing.
C25_ReturnedIsCommitted == Idle => disk = conn

\* delete_subject has returned after deleting a stored subject that had an
\* action, and the file no longer holds either
C25_Witness ==
    /\ Idle
    /\ last.op = "delete_subject" /\ last.ok
    /\ last.id \in Stored(pre.subjects)
    /\ Of(pre, "actions", last.id) # {}
    /\ last.id \notin Stored(disk.subjects)
    /\ Of(disk, "actions", last.id) = {}
    /\ disk # EmptyDb

-----------------------------------------------------------------------------
(* Read, then write back: update_X(get_X(id)), as the screens do around a  *)
(* dialog and the dashboard does on a status toggle                        *)

Row(table, e) ==
    CASE table = "subjects"     -> SubjectRow(e)
      [] table = "agenda_items" -> AgendaItemRow(e)
      [] table = "meetings"     -> MeetingRow(e)
      [] table = "actions"      -> ActionRow(e)
      [] table = "notes"        -> NoteRow(e)

\* The longest tags text that is still written back
MaxTagsText == 4

\* update_X(get_X(id)) for a stored id.  update_X reads the attributes of
\* the columns it sets and the id; an attribute the entity does not have
\* raises AttributeError before the statement is executed.
read_modify_write(table, id) ==
    /\ Idle
    /\ ~IsNull(Get(conn, table, id))
    /\ table = "notes" => Len(COALESCE(conn.notes[id].tags)) <= MaxTagsText
    /\ IF UpdateCols(table) \cup {"id"} \subseteq DOMAIN Val(Get(conn, table, id))
       THEN Update(UpdateOp(table), table, UpdateCols(table),
                   Row(table, Val(Get(conn, table, id))))
       ELSE Raise(UpdateOp(table), id)

RmwAgendaItems ==
    {[NewAgendaItem("g1", "s1", <<"topic">>, d)
         EXCEPT !.status = AgendaStatus("discussed"), !.discussed_at = Some(Now0 + 1),
                !.is_recurring = r,
                !.recurrence_pattern = Some(RecurrencePattern("weekly"))] :
        d \in {None, Some(<<"board">>)}, r \in {0, 1}}

RmwActions ==
    {[NewAction("a1", "s1", <<"fix">>, tags, "done", Some(Now0 + 1), Some(Now0), None)
         EXCEPT !.meeting_id = Some("m1"), !.note_id = Some("n1"),
                !.agenda_item_id = Some("g1")] :
        tags \in {<<>>, << <<"x">>, <<"y">> >>}}

RmwNotes ==
    {[NewNote("n1", "s1", <<"memo">>, <<"body">>) EXCEPT !.tags = PyList(tags)] :
        tags \in {<<>>, << <<"x">> >>, << <<"x">>, <<"y">> >>}}

NextRmw ==
    \/ \E e \in TextSubjects : add_subject(e)
    \/ \E e \in RmwAgendaItems : add_agenda_item(e)
    \/ \E e \in TextMeetings : add_meeting(e)
    \/ \E e \in RmwActions : add_action(e)
    \/ \E e \in RmwNotes : add_note(e)
    \/ \E table \in Tables, id \in {"s1", "g1", "m1", "a1", "n1"} :
          read_modify_write(table, id)

SpecRmw == Init /\ [][NextRmw]_vars

\* C28: update_X(get_X(id)) for a stored entity leaves every table and the
\* search index as they were, however many times it is repeated.
C28_ReadModifyWriteIdentity ==
    [][\A table \in Tables : last'.op = UpdateOp(table) => conn' = conn]_vars

-----------------------------------------------------------------------------
(* Opening a database file: Database.__init__ on a new file, on a file of  *)
(* an earlier version, and again on a file that was opened before          *)

\* db = Database(path): _init_db and _run_migrations on the file as it is
\* on disk.  Before the first call pc is "closed".
Database_init ==
    /\ pc \in {"closed", "idle"}
    /\ LET F == Database_init_db([schema |-> schema, db |-> disk])
       IN  /\ schema' = F.schema
           /\ conn' = F.db
           /\ disk' = F.db
    /\ pc' = "idle"
    /\ last' = [op |-> "open", id |-> "", ok |-> TRUE, at |-> pc]
    /\ pre' = EmptyDb
    /\ UNCHANGED <<pc_subject, now, utc_offset, held>>

\* The schemas earlier versions left: before the title column of meetings,
\* before the note_id column of actions, and the current one; with the
\* search index and its triggers, or with the tables only
OldSchemas ==
    {[objects |-> objects,
      columns |-> [t \in TableNames |->
                     IF t = "meetings" /\ ~has_title
                     THEN SelectSeq(TableColumns(t), LAMBDA c : c # "title")
                     ELSE IF t = "actions" /\ has_note_id
                          THEN Append(TableColumns(t), "note_id")
                          ELSE TableColumns(t)]] :
        <<has_title, has_note_id>> \in {<<FALSE, FALSE>>, <<TRUE, FALSE>>, <<TRUE, TRUE>>},
        objects \in {SchemaObjects, TableNames}}

\* The rows of D under schema S: each row has the columns of its table, and
\* there are index rows if S has the index
RowsUnder(S, D) ==
    [t \in DOMAIN D |->
        IF t \in TableNames
        THEN [k \in Stored(D[t]) |->
                [f \in {S.columns[t][i] : i \in DOMAIN S.columns[t]} |-> D[t][k][f]]]
        ELSE IF "unified_fts" \in S.objects THEN D[t] ELSE EmptyBag]

\* What such a file holds: nothing, a subject, and a meeting and an action
\* of that subject
OldContents ==
    LET D1 == SqlInsert(EmptyDb, "subjects", SubjectRow(NewSubject("s1", <<"alpha">>, None)))
        D2 == SqlInsert(D1, "meetings",
                        MeetingRow(NewMeeting("m1", "s1", <<<<"ann">>>>, <<"minutes">>)))
        D3 == SqlInsert(D1, "actions",
                        ActionRow(NewAction("a1", "s1", <<"fix">>, <<>>, "todo", None,
                                            None, None)))
        D4 == SqlInsert(D2, "actions",
                        ActionRow(NewAction("a1", "s1", <<"fix">>, <<>>, "todo", None,
                                            None, None)))
    IN  {EmptyDb, D1, D2, D3, D4}

InitSchema ==
    /\ pc = "closed"
    /\ \/ schema = NoFile /\ disk = EmptyDb
       \/ \E S \in OldSchemas, D \in OldContents :
             schema = S /\ disk = RowsUnder(S, D)
    /\ conn = disk
    /\ pc_subject = NoSubject
    /\ pre = EmptyDb
    /\ now = Now0
    /\ utc_offset = 0
    /\ held = NoObject
    /\ last = [op |-> "init", id |-> "", ok |-> TRUE, at |-> "closed"]

SchemaMeetings == {NewMeeting(id, "s1", <<<<"ann">>>>, <<"minutes">>) : id \in {"m1", "m2"}}
SchemaActions ==
    {NewAction(id, "s1", <<"fix">>, <<>>, "todo", None, None, None) : id \in {"a1", "a2"}}

NextSchema ==
    \/ Database_init
    \/ \E e \in TFSubjects : add_subject(e)
    \/ \E e \in SchemaMeetings : add_meeting(e)
    \/ \E e \in SchemaActions : add_action(e)
    \/ \E id \in {"m1", "m2"} : delete_meeting(id)

SpecSchema == InitSchema /\ [][NextSchema]_vars

NoDuplicates(columns) ==
    \A i, j \in DOMAIN columns : columns[i] = columns[j] => i = j

IsPrefix(a, b) == Len(a) <= Len(b) /\ SubSeq(b, 1, Len(a)) = a

\* C26: opening a database file leaves every name of the schema and every
\* column in place and in order, adds no column twice, and gives meetings a
\* title column and actions a note_id column; every stored row keeps its id
\* and the value of each column it had, and the search index is unchanged;
\* opening a file that has been opened before changes neither the schema
\* nor any row.
C26_OpenIsIdempotentAndAdditive ==
    [][last'.op = "open" =>
         /\ schema.objects \subseteq schema'.objects
         /\ schema'.objects = SchemaObjects
         /\ \A t \in TableNames :
               /\ IsPrefix(schema.columns[t], schema'.columns[t])
               /\ NoDuplicates(schema'.columns[t])
               /\ Stored(disk'[t]) = Stored(disk[t])
               /\ \A k \in Stored(disk[t]) :
                     /\ DOMAIN disk'[t][k] =
                           {schema'.columns[t][i] : i \in DOMAIN schema'.columns[t]}
                     /\ \A f \in DOMAIN disk[t][k] : disk'[t][k][f] = disk[t][k][f]
         /\ Contains(schema'.columns.meetings, "title")
         /\ Contains(schema'.columns.actions, "note_id")
         /\ disk'.unified_fts = disk.unified_fts
         /\ conn' = disk'
         /\ pc = "idle" => (schema' = schema /\ disk' = disk)
    ]_vars

\* A file of an earlier version has been opened and opened again: its
\* meeting has the title of the migration and its action a null note_id,
\* next to a meeting added since
C26_Witness ==
    /\ last.op = "open" /\ last.at = "idle"
    /\ \E k \in Stored(disk.meetings) : disk.meetings[k].title = <<"Meeting">>
    /\ \E k \in Stored(disk.meetings) : disk.meetings[k].title = <<"sync">>
    /\ \E k \in Stored(disk.actions) : IsNull(disk.actions[k].note_id)
    /\ schema # CurrentSchema
    /\ schema.columns.meetings[Len(schema.columns.meetings)] = "title"

-----------------------------------------------------------------------------
(* One index row per entity *)

\* The number of rows of the index with a given content_type and content_id
IndexCount(D, ctype, cid) ==
    BagCardinality([r \in {r \in BagToSet(D.unified_fts) :
                             r.content_type = ctype /\ r.content_id = cid} |->
                      D.unified_fts[r]])

\* C27: in every state the connection or the database file can show, after
\* any sequence of adds, updates and deletes, failed duplicate adds and
\* repeated updates included, the search index holds at most one row for
\* each (content_type, content_id).
C27_OneIndexRowPerEntity ==
    \A D \in {conn, disk} :
        \A r \in BagToSet(D.unified_fts) :
            IndexCount(D, r.content_type, r.content_id) = 1

\* An add of an entity that is stored and indexed has just failed
C27_Witness ==
    \E table \in Tables :
        /\ last.op = AddOp(table) /\ ~last.ok
        /\ last.id \in Stored(conn[table])
        /\ IndexCount(conn, TypeOf(table), last.id) = 1

-----------------------------------------------------------------------------
(* Updates with an entity that carries another subject_id and created_at *)

\* Two versions of each entity: of subject s1 created now, and of subject
\* s2, which is never stored, created a tick later with another text
MoveVersions == {<<"s1", Now0, <<"first">>>>, <<"s2", Now0 + 1, <<"second">>>>}

MoveSubjects == {NewSubject("s1", <<"alpha">>, None)}
MoveAgendaItems ==
    {[NewAgendaItem("g1", v[1], v[3], None) EXCEPT !.created_at = v[2]] :
        v \in MoveVersions}
MoveMeetings ==
    {[NewMeeting("m1", v[1], <<<<"ann">>>>, v[3]) EXCEPT !.created_at = v[2]] :
        v \in MoveVersions}
MoveActions ==
    {[NewAction("a1", v[1], v[3], <<>>, "todo", None, None, None)
         EXCEPT !.created_at = v[2]] : v \in MoveVersions}
MoveNotes ==
    {[NewNote("n1", v[1], v[3], <<"body">>) EXCEPT !.created_at = v[2]] :
        v \in MoveVersions}

NextMove ==
    \/ \E e \in MoveSubjects : add_subject(e)
    \/ \E e \in MoveAgendaItems : add_agenda_item(e)
    \/ \E e \in MoveAgendaItems : update_agenda_item(e)
    \/ \E e \in MoveMeetings : add_meeting(e)
    \/ \E e \in MoveMeetings : update_meeting(e)
    \/ \E e \in MoveActions : add_action(e)
    \/ \E e \in MoveActions : update_action(e)
    \/ \E e \in MoveNotes : add_note(e)
    \/ \E e \in MoveNotes : update_note(e)
    \/ \E id \in {"g1"} : delete_agenda_item(id)
    \/ \E id \in {"n1"} : delete_note(id)

SpecMove == Init /\ [][NextMove]_vars

\* C30: an update_agenda_item, update_meeting, update_action or update_note
\* leaves the ids stored in every table as they were and leaves the id,
\* subject_id and created_at of every stored row as they were, whatever the
\* entity passed in carries; the index row of the entity updated names the
\* same subject as before.
C30_UpdateKeepsIdentity ==
    [][\A table \in ChildTables :
          last'.op = UpdateOp(table) =>
             /\ \A t \in Tables : Stored(conn'[t]) = Stored(conn[t])
             /\ \A t \in ChildTables :
                   \A k \in Stored(conn[t]) :
                      /\ conn'[t][k].id = k
                      /\ conn'[t][k].subject_id = conn[t][k].subject_id
                      /\ conn'[t][k].created_at = conn[t][k].created_at
                      /\ \A r \in IndexRows(conn', t, k) :
                            r.subject_id = Some(conn[t][k].subject_id)
             /\ \A sid \in SubjectIds, t \in ChildTables :
                   WhereSubjectId(conn', t, sid) = WhereSubjectId(conn, t, sid)
    ]_vars

\* update_note has written the text of the version of subject s2 into a
\* note that still belongs to s1, created when it was
C30_Witness ==
    /\ last.op = "update_note" /\ last.ok
    /\ "n1" \in Stored(conn.notes)
    /\ conn.notes["n1"].title = <<"second">>
    /\ conn.notes["n1"].subject_id = "s1"
    /\ conn.notes["n1"].created_at = isoformat(Now0)
    /\ \E r \in IndexRows(conn, "notes", "n1") :
          r.subject_id = Some("s1") /\ r.title = <<"second">>

====
